---- MODULE Spec2Model ----
(***************************************************************************)
(* streamsnapper: the concurrent chunked Downloader                        *)
(* (src/streamsnapper/downloader.py).                                      *)
(*                                                                         *)
(* Bytes of the remote resource are identified with their offsets, so a    *)
(* body is written as a sequence of runs <<lo, hi>> of resource offsets    *)
(* (all bytes lo..hi, in order).  Two bodies are the same byte string      *)
(* exactly when their coalesced run sequences are equal.                   *)
(***************************************************************************)
EXTENDS Integers, Sequences, FiniteSets, TLC

\* ------------------------------------------------------------------ bounds
MaxSize == 2        \* small resource sizes 0..MaxSize (bytes)
MaxForced == 3      \* caller-forced connection counts 1..MaxForced
MaxCalls == 2       \* download() calls made on one Downloader
MaxHeaders == 2     \* entries of the caller's headers dict

\* ------------------------------------------------------- program constants
MiB == 1024 * 1024

Min(a, b) == IF a < b THEN a ELSE b

\* ---------------------------------------------------------- header names
\* A header name is the tuple of its characters.
HAccept == <<"A","c","c","e","p","t">>
HAcceptEncoding == <<"A","c","c","e","p","t","-","E","n","c","o","d","i","n","g">>
HUserAgent == <<"U","s","e","r","-","A","g","e","n","t">>
HRange == <<"R","a","n","g","e">>
HXToken == <<"X","-","T","o","k","e","n">>

LowerLetters == <<"a","b","c","d","e","f","g","h","i","j","k","l","m",
                  "n","o","p","q","r","s","t","u","v","w","x","y","z">>
UpperLetters == <<"A","B","C","D","E","F","G","H","I","J","K","L","M",
                  "N","O","P","Q","R","S","T","U","V","W","X","Y","Z">>
Digits == <<"0","1","2","3","4","5","6","7","8","9">>

Chars == {LowerLetters[i] : i \in 1..Len(LowerLetters)}
         \cup {UpperLetters[i] : i \in 1..Len(UpperLetters)}
         \cup {Digits[i] : i \in 1..Len(Digits)}
         \cup {"-", " ", ".", "(", ")"}

\* str.upper / str.lower / cased-ness of one character, as tables
UpperMap ==
    [c \in Chars |->
        IF \E i \in 1..Len(LowerLetters) : c = LowerLetters[i]
        THEN UpperLetters[CHOOSE i \in 1..Len(LowerLetters) : c = LowerLetters[i]]
        ELSE c]

LowerMap ==
    [c \in Chars |->
        IF \E i \in 1..Len(UpperLetters) : c = UpperLetters[i]
        THEN LowerLetters[CHOOSE i \in 1..Len(UpperLetters) : c = UpperLetters[i]]
        ELSE c]

CasedMap == [c \in Chars |-> UpperMap[c] # c \/ LowerMap[c] # c]

IsCased(c) == CasedMap[c]
upper(c) == UpperMap[c]
lower(c) == LowerMap[c]

\* str.title(): a cased character is upper-cased when it starts a word
\* (first character, or the previous character is uncased), else lower-cased.
title(s) ==
    [i \in 1..Len(s) |->
        IF i = 1 \/ ~IsCased(s[i-1]) THEN upper(s[i]) ELSE lower(s[i])]

str_upper(s) == [i \in 1..Len(s) |-> upper(s[i])]
str_lower(s) == [i \in 1..Len(s) |-> lower(s[i])]

\* the fixed base header set of __init__
BaseHeaders ==
    (HAccept :> "*/*") @@ (HAcceptEncoding :> "identity") @@ (HUserAgent :> "Mozilla/5.0")

imutable_headers == {HAcceptEncoding, HRange}

\* mutant: the immutable check is made on the raw key, not on key.title()
RECURSIVE merge_headers_rawkey(_, _)
merge_headers_rawkey(h, items) ==
    IF items = <<>> THEN h
    ELSE LET key == items[1][1]
             value == items[1][2]
             h2 == IF key \notin imutable_headers
                   THEN [k \in DOMAIN h \cup {title(key)} |->
                            IF k = title(key) THEN value ELSE h[k]]
                   ELSE h
         IN merge_headers_rawkey(h2, Tail(items))

\* mutant: the value is stored under the raw key, not under key.title()
RECURSIVE merge_headers_keepcase(_, _)
merge_headers_keepcase(h, items) ==
    IF items = <<>> THEN h
    ELSE LET key == items[1][1]
             value == items[1][2]
             h2 == IF title(key) \notin imutable_headers
                   THEN [k \in DOMAIN h \cup {key} |->
                            IF k = key THEN value ELSE h[k]]
                   ELSE h
         IN merge_headers_keepcase(h2, Tail(items))

\* if headers: for key, value in headers.items(): ...  (dict order = sequence order)
RECURSIVE merge_headers(_, _)
merge_headers(h, items) ==
    IF items = <<>> THEN h
    ELSE LET key == items[1][1]
             value == items[1][2]
             h2 == IF title(key) \notin imutable_headers
                   THEN [k \in DOMAIN h \cup {title(key)} |->
                            IF k = title(key) THEN value ELSE h[k]]
                   ELSE h
         IN merge_headers(h2, Tail(items))

init_headers(caller) == merge_headers(BaseHeaders, caller)

\* ------------------------------------------------------------ ChunkPlanner
Max(a, b) == IF a > b THEN a ELSE b

auto == 0       \* stands for max_connections = 'auto'

\* mutant: the 5 MiB boundary is exclusive
_calculate_connections_lt(max_conn, file_size) ==
    IF max_conn # auto THEN max_conn
    ELSE IF file_size < 1024 * 1024 THEN 1
    ELSE IF file_size < 5 * 1024 * 1024 THEN 4
    ELSE IF file_size <= 50 * 1024 * 1024 THEN 8
    ELSE IF file_size <= 200 * 1024 * 1024 THEN 16
    ELSE IF file_size <= 400 * 1024 * 1024 THEN 24
    ELSE 32

_calculate_connections(max_conn, file_size) ==
    IF max_conn # auto THEN max_conn
    ELSE IF file_size < 1024 * 1024 THEN 1
    ELSE IF file_size <= 5 * 1024 * 1024 THEN 4
    ELSE IF file_size <= 50 * 1024 * 1024 THEN 8
    ELSE IF file_size <= 200 * 1024 * 1024 THEN 16
    ELSE IF file_size <= 400 * 1024 * 1024 THEN 24
    ELSE 32

\* math.ceil(a / b) for positive b (exact for the sizes considered here)
ceil_div(a, b) == (a + b - 1) \div b

\* mutant: the end of a range is not clipped to total_size - 1
RECURSIVE range_loop_noclip(_, _, _)
range_loop_noclip(i, total_size, chunk_size) ==
    IF i >= total_size THEN <<>>
    ELSE << <<i, i + chunk_size - 1>> >>
         \o range_loop_noclip(i + chunk_size, total_size, chunk_size)

\* for i in range(0, total_size, chunk_size): ranges.append((i, min(...)))
RECURSIVE range_loop(_, _, _)
range_loop(i, total_size, chunk_size) ==
    IF i >= total_size THEN <<>>
    ELSE << <<i, Min(i + chunk_size - 1, total_size - 1)>> >>
         \o range_loop(i + chunk_size, total_size, chunk_size)

\* mutant: the chunk size is rounded down instead of up
_get_chunk_ranges_floor(max_conn, total_size) ==
    IF total_size = 0 THEN << <<0, 0>> >>
    ELSE LET connections == _calculate_connections(max_conn, total_size)
             chunk_size == Max(1, total_size \div connections)
         IN range_loop(0, total_size, chunk_size)

_get_chunk_ranges(max_conn, total_size) ==
    IF total_size = 0 THEN << <<0, 0>> >>
    ELSE LET connections == _calculate_connections(max_conn, total_size)
             chunk_size == ceil_div(total_size, connections)
         IN range_loop(0, total_size, chunk_size)

\* -------------------------------------------------------------- the server
\* Body of a GET response for a resource of `size` bytes: the requested run
\* when a Range header is present, the whole resource otherwise.
WholeBody(size) == IF size = 0 THEN <<>> ELSE << <<0, size - 1>> >>

ServerBody(size, range_hdr) ==
    IF range_hdr = <<>> THEN WholeBody(size) ELSE << range_hdr >>

\* filename the server suggests (Content-Disposition / URL path): video.mp4
suggested_filename == <<>>

\* --------------------------------------------------------- the file system
\* A file name in the output directory is the requested stem followed by the
\* "_<counter>" suffixes appended to it: <<>> is video.mp4, <<1>> is
\* video_1.mp4, <<1, 2>> is video_1_2.mp4.  The extension is kept as is.
\* The file system maps each existing name to its content.
OldContent == << <<-1, -1>> >>      \* bytes that are not part of any resource

WriteFile(files, path, content) ==
    [n \in DOMAIN files \cup {path} |-> IF n = path THEN content ELSE files[n]]

\* f'{base_name}_{counter}{extension}'
with_counter(base_name, counter) == Append(base_name, counter)

\* mutant: the counter is appended to the current name, not to base_name
RECURSIVE while_exists_stem(_, _, _, _)
while_exists_stem(files, path, base_name, counter) ==
    IF path \in DOMAIN files
    THEN while_exists_stem(files, with_counter(path, counter), base_name, counter + 1)
    ELSE path

\* while output_path.exists(): output_path = ...; counter += 1
RECURSIVE while_exists(_, _, _, _)
while_exists(files, path, base_name, counter) ==
    IF path \in DOMAIN files
    THEN while_exists(files, with_counter(base_name, counter), base_name, counter + 1)
    ELSE path

\* download(), lines 228-235
resolve_path(files, path, overwrite_flag) ==
    IF ~overwrite_flag THEN while_exists(files, path, path, 1) ELSE path

\* _download_chunk, lines 188-191: the Range header of the per-chunk copy
\* (<<>> when the header is not added)
chunk_range_header(start, end) ==
    IF end > 0 THEN <<start, end>> ELSE <<>>

\* ------------------------------------------------------------------- state
VARIABLES
    max_connections,    \* Downloader._max_connections (auto or a count)
    overwrite,          \* Downloader._overwrite
    caller_headers,     \* the headers argument of __init__, as (key, value) items
    headers,            \* Downloader.headers
    output_file_path,   \* Downloader.output_file_path: {} (None) or {name}
    fs,                 \* the output directory
    pc,                 \* position of the current download() call
    calls,              \* download() calls started so far
    url_size,           \* size of the resource behind the url of this call
    arg_path,           \* download(): the output_path argument as passed
    parent_exists,      \* whether the parent directory of that path exists
    output_path,        \* download(): local output_path
    total_size,         \* download(): total_size from the HEAD response
    head_result,        \* outcome of the HEAD probe of this call
    ranges,             \* download(): planned ranges
    connections,        \* download(): max_workers of the pool
    chunks,             \* per range: request state, Range header sent, body
    written,            \* chunks written to the open file so far
    raised,             \* exception kind that reached the caller of this call
    fs0,                \* the output directory when this call started
    plan_in,            \* planner check: <<max_connections, total_size>>
    plan_out,           \* planner check: <<connections, ranges>> once computed
    _raw_youtube_streams,       \* YouTube._raw_youtube_streams
    system_language_prefix,     \* YouTube.system_language_prefix
    best_video_streams,         \* YouTube.best_video_streams (None or a list)
    best_video_stream,          \* YouTube.best_video_stream (None, {} or a dict)
    best_video_download_url,    \* YouTube.best_video_download_url
    available_video_qualities,  \* YouTube.available_video_qualities
    best_audio_streams,         \* YouTube.best_audio_streams (None or a list)
    best_audio_stream,          \* YouTube.best_audio_stream (None, {} or a dict)
    best_audio_download_url,    \* YouTube.best_audio_download_url
    available_audio_languages,  \* YouTube.available_audio_languages
    preferred,          \* the preferred_quality / preferred_language argument
    yt_pc,              \* position of the analyze_*_streams / extract call
    yt_raised,          \* exception kind that left that call
    extract_url,        \* YouTube.extract: the url argument
    ytdlp_data,         \* YouTube.extract: the ytdlp_data argument
    _source_url,        \* YouTube._source_url
    _raw_youtube_data,  \* YouTube._raw_youtube_data
    provider_called,    \* whether extract called YoutubeDL.extract_info
    _raw_youtube_subtitles,     \* YouTube._raw_youtube_subtitles
    gv_in,              \* the arguments of one get_value call
    gv_out,             \* its outcome: <<>> before the call, then <<outcome>>
    invocations         \* concurrent download() calls that share fs, by caller

vars == <<max_connections, overwrite, caller_headers, headers, output_file_path,
          fs, pc, calls, url_size, arg_path, parent_exists, output_path, total_size,
          head_result, ranges, connections, chunks, written, raised, fs0, plan_in, plan_out,
          _raw_youtube_streams, system_language_prefix,
          best_video_streams, best_video_stream, best_video_download_url,
          available_video_qualities,
          best_audio_streams, best_audio_stream, best_audio_download_url,
          available_audio_languages, preferred, yt_pc, yt_raised,
          extract_url, ytdlp_data, _source_url, _raw_youtube_data, provider_called, _raw_youtube_subtitles,
          gv_in, gv_out, invocations>>

config_vars == <<max_connections, overwrite, caller_headers, headers>>
call_args == <<url_size, arg_path, parent_exists>>
plan_vars == <<plan_in, plan_out>>
video_vars == <<best_video_streams, best_video_stream, best_video_download_url,
                available_video_qualities>>
audio_vars == <<best_audio_streams, best_audio_stream, best_audio_download_url,
                available_audio_languages>>
yt_vars == <<_raw_youtube_streams, system_language_prefix, video_vars, audio_vars,
             preferred, yt_pc, yt_raised>>
extract_vars == <<extract_url, ytdlp_data, _source_url, _raw_youtube_data, provider_called,
                  _raw_youtube_subtitles>>
gv_vars == <<gv_in, gv_out>>

\* ------------------------------------------------------------ input spaces
Sizes == 0..MaxSize \cup {MiB}
ForcedCounts == 1..MaxForced
RequestedPaths == {[is_dir |-> TRUE, name |-> <<>>],
                   [is_dir |-> FALSE, name |-> <<1>>]}
InitialDirs == {[n \in d |-> OldContent] : d \in {{}, {<<>>}, {<<>>, <<2>>}}}

NoCall ==
    /\ pc = "Pending" /\ calls = 0
    /\ output_file_path = {}
    /\ url_size = 0 /\ total_size = 0
    /\ arg_path = [is_dir |-> FALSE, name |-> <<>>]
    /\ parent_exists = TRUE
    /\ output_path = arg_path
    /\ head_result = "none" /\ ranges = <<>> /\ connections = 0
    /\ chunks = <<>> /\ written = 0 /\ raised = "none"

NoPlan == plan_in = <<>> /\ plan_out = <<>>

\* a dict-valued attribute: None, {} or a dict
PyNoneDict == [is_none |-> TRUE, items |-> <<>>]
PyEmptyDict == [is_none |-> FALSE, items |-> <<>>]
PyDict(d) == [is_none |-> FALSE, items |-> <<d>>]

\* YouTube.__init__: the attributes before any analysis
FreshYouTube ==
    /\ best_video_streams = << <<>> >> /\ best_video_stream = PyEmptyDict
    /\ best_video_download_url = <<>> /\ available_video_qualities = <<>>
    /\ best_audio_streams = << <<>> >> /\ best_audio_stream = PyEmptyDict
    /\ best_audio_download_url = <<>> /\ available_audio_languages = <<>>

NoExtract ==
    /\ extract_url = <<>> /\ ytdlp_data = <<>> /\ provider_called = FALSE
    /\ _source_url = <<>> /\ _raw_youtube_data = << >> /\ _raw_youtube_subtitles = << >>

NoGetValue == gv_in = <<>> /\ gv_out = <<>>

NoInvocations == invocations = <<>>

\* no extract call, no get_value call and no concurrent download() calls
NoOther == NoExtract /\ NoGetValue /\ NoInvocations

NoYT ==
    /\ FreshYouTube /\ NoOther
    /\ _raw_youtube_streams = <<>> /\ system_language_prefix = <<"e", "n">>
    /\ preferred = <<>> /\ yt_pc = "idle" /\ yt_raised = "none"

\* Downloader.__init__
Init ==
    /\ max_connections \in {auto} \cup ForcedCounts
    /\ overwrite \in BOOLEAN
    /\ caller_headers = <<>>
    /\ headers = init_headers(caller_headers)
    /\ fs \in InitialDirs
    /\ fs0 = fs
    /\ NoCall /\ NoPlan /\ NoYT

\* -------------------------------------------------------------- download()
InFlight == {i \in DOMAIN chunks : chunks[i].st = "inflight"}
Finished == {i \in DOMAIN chunks : chunks[i].st \in {"done", "failed"}}
FailedChunks == {i \in DOMAIN chunks : chunks[i].st = "failed"}

\* a caller invokes download(url, output_path); `parent` tells whether the
\* parent directory of output_path exists
CallIn(size, path, parent) ==
    /\ pc \in {"Pending", "Complete", "Failed"}
    /\ calls < MaxCalls
    /\ path.is_dir => parent
    /\ calls' = calls + 1
    /\ pc' = "ProbingHeaders"
    /\ url_size' = size
    /\ arg_path' = path
    /\ parent_exists' = parent
    /\ output_path' = path
    /\ fs0' = fs
    /\ total_size' = 0 /\ head_result' = "none" /\ ranges' = <<>>
    /\ connections' = 0 /\ chunks' = <<>> /\ written' = 0 /\ raised' = "none"
    /\ UNCHANGED <<config_vars, plan_vars, yt_vars, extract_vars, gv_vars, invocations, output_file_path, fs>>

\* the same call with an output path inside an existing directory
Call(size, path) == CallIn(size, path, TRUE)

\* _get_file_info: head() raises HTTPError -> RequestError (line 119), which
\* download()'s `except Exception` (line 269) turns into DownloadError
HeadTransportError ==
    /\ pc = "ProbingHeaders"
    /\ head_result' = "transport"
    /\ raised' = "DownloadError"
    /\ pc' = "Failed"
    /\ UNCHANGED <<config_vars, plan_vars, yt_vars, extract_vars, gv_vars, invocations, output_file_path, fs, calls, call_args,
                   output_path, total_size, ranges, connections, chunks, written, fs0>>

\* _get_file_info returns (the status of the response is not looked at), then
\* download() lines 223-237 resolve the output path
HeadResponse(status, has_length) ==
    /\ pc = "ProbingHeaders"
    /\ head_result' = status
    /\ total_size' = IF has_length THEN url_size ELSE 0
    /\ LET target == IF output_path.is_dir THEN suggested_filename ELSE output_path.name
           resolved == resolve_path(IF parent_exists THEN fs ELSE << >>, target, overwrite)
       IN /\ output_path' = [is_dir |-> FALSE, name |-> resolved]
          /\ output_file_path' = {resolved}
    /\ pc' = "Planning"
    /\ UNCHANGED <<config_vars, plan_vars, yt_vars, extract_vars, gv_vars, invocations, fs, calls, call_args, ranges,
                   connections, chunks, written, raised, fs0>>

\* mutant: the pool is created with one worker too few
Plan_fewer_workers ==
    /\ pc = "Planning"
    /\ ranges' = IF total_size = 0 THEN << <<0, 0>> >>
                 ELSE _get_chunk_ranges(max_connections, total_size)
    /\ connections' = Len(ranges') - 1
    /\ chunks' = [i \in 1..Len(ranges') |-> [st |-> "queued", range_hdr |-> <<>>, body |-> <<>>]]
    /\ pc' = "Fetching"
    /\ UNCHANGED <<config_vars, plan_vars, yt_vars, extract_vars, gv_vars, invocations, output_file_path, fs, calls, call_args,
                   output_path, total_size, head_result, written, raised, fs0>>

\* download() lines 250-263: the plan, and the tasks handed to the pool (for
\* total_size == 0 the single request (0, 0) made by the calling thread)
Plan ==
    /\ pc = "Planning"
    /\ ranges' = IF total_size = 0 THEN << <<0, 0>> >>
                 ELSE _get_chunk_ranges(max_connections, total_size)
    /\ connections' = Len(ranges')
    /\ chunks' = [i \in 1..Len(ranges') |-> [st |-> "queued", range_hdr |-> <<>>, body |-> <<>>]]
    /\ pc' = "Fetching"
    /\ UNCHANGED <<config_vars, plan_vars, yt_vars, extract_vars, gv_vars, invocations, output_file_path, fs, calls, call_args,
                   output_path, total_size, head_result, written, raised, fs0>>

\* a pool worker takes the task of range i from the (first-in first-out) work
\* queue, runs _download_chunk and issues its GET
SendChunk(i) ==
    /\ pc = "Fetching"
    /\ i \in DOMAIN chunks
    /\ chunks[i].st = "queued"
    /\ \A j \in 1..(i - 1) : chunks[j].st # "queued"
    /\ Cardinality(InFlight) < connections
    /\ chunks' = [chunks EXCEPT ![i] =
                    [st |-> "inflight",
                     range_hdr |-> chunk_range_header(ranges[i][1], ranges[i][2]),
                     body |-> <<>>]]
    /\ UNCHANGED <<config_vars, plan_vars, yt_vars, extract_vars, gv_vars, invocations, output_file_path, fs, pc, calls, call_args,
                   output_path, total_size, head_result, ranges, connections,
                   written, raised, fs0>>

\* the GET of range i succeeds: response.content is returned
ChunkOK(i) ==
    /\ pc = "Fetching"
    /\ i \in DOMAIN chunks
    /\ chunks[i].st = "inflight"
    /\ chunks' = [chunks EXCEPT ![i].st = "done",
                                ![i].body = ServerBody(url_size, chunks[i].range_hdr)]
    /\ UNCHANGED <<config_vars, plan_vars, yt_vars, extract_vars, gv_vars, invocations, output_file_path, fs, pc, calls, call_args,
                   output_path, total_size, head_result, ranges, connections,
                   written, raised, fs0>>

\* the GET of range i raises HTTPError (transport error or raise_for_status):
\* _download_chunk raises DownloadError into its future
ChunkFail(i) ==
    /\ pc = "Fetching"
    /\ i \in DOMAIN chunks
    /\ chunks[i].st = "inflight"
    /\ chunks' = [chunks EXCEPT ![i].st = "failed"]
    /\ UNCHANGED <<config_vars, plan_vars, yt_vars, extract_vars, gv_vars, invocations, output_file_path, fs, pc, calls, call_args,
                   output_path, total_size, head_result, ranges, connections,
                   written, raised, fs0>>

\* mutant: the first failure reaches the caller while other requests are
\* still queued or in flight
FetchFailed_no_wait ==
    /\ pc = "Fetching"
    /\ FailedChunks # {}
    /\ raised' = "DownloadError"
    /\ pc' = "Failed"
    /\ UNCHANGED <<config_vars, plan_vars, yt_vars, extract_vars, gv_vars, invocations,
                   output_file_path, fs, calls, call_args,
                   output_path, total_size, head_result, ranges, connections,
                   chunks, written, fs0>>

\* f.result() re-raises the first failure; leaving the `with` block waits for
\* the other workers; line 269 raises DownloadError to the caller
FetchFailed ==
    /\ pc = "Fetching"
    /\ Finished = DOMAIN chunks
    /\ FailedChunks # {}
    /\ raised' = "DownloadError"
    /\ pc' = "Failed"
    /\ UNCHANGED <<config_vars, plan_vars, yt_vars, extract_vars, gv_vars, invocations, output_file_path, fs, calls, call_args,
                   output_path, total_size, head_result, ranges, connections,
                   chunks, written, fs0>>

\* mutant: the file is opened although a chunk has failed
OpenFile_eager ==
    /\ pc = "Fetching"
    /\ Finished = DOMAIN chunks
    /\ fs' = WriteFile(fs, output_path.name, <<>>)
    /\ written' = 0
    /\ pc' = "Assembling"
    /\ UNCHANGED <<config_vars, plan_vars, yt_vars, extract_vars, gv_vars, invocations, output_file_path, calls, call_args,
                   output_path, total_size, head_result, ranges, connections,
                   chunks, raised, fs0>>

\* every result was collected: Path(output_path).open('wb')
OpenFile ==
    /\ pc = "Fetching"
    /\ Finished = DOMAIN chunks
    /\ FailedChunks = {}
    /\ parent_exists
    /\ fs' = WriteFile(fs, output_path.name, <<>>)
    /\ written' = 0
    /\ pc' = "Assembling"
    /\ UNCHANGED <<config_vars, plan_vars, yt_vars, extract_vars, gv_vars, invocations, output_file_path, calls, call_args,
                   output_path, total_size, head_result, ranges, connections,
                   chunks, raised, fs0>>

\* every result was collected, but the directory of output_path is missing:
\* open('wb') raises FileNotFoundError, which line 269 turns into DownloadError
OpenFails ==
    /\ pc = "Fetching"
    /\ Finished = DOMAIN chunks
    /\ FailedChunks = {}
    /\ ~parent_exists
    /\ raised' = "DownloadError"
    /\ pc' = "Failed"
    /\ UNCHANGED <<config_vars, plan_vars, yt_vars, extract_vars, gv_vars, invocations, output_file_path, fs, calls, call_args,
                   output_path, total_size, head_result, ranges, connections,
                   chunks, written, fs0>>

\* mutant: the bodies are written from the last range to the first
WriteChunk_last_first ==
    /\ pc = "Assembling"
    /\ written < Len(chunks)
    /\ fs' = WriteFile(fs, output_path.name,
                       fs[output_path.name] \o chunks[Len(chunks) - written].body)
    /\ written' = written + 1
    /\ UNCHANGED <<config_vars, plan_vars, yt_vars, extract_vars, gv_vars, invocations,
                   output_file_path, pc, calls, call_args,
                   output_path, total_size, head_result, ranges, connections,
                   chunks, raised, fs0>>

\* for chunk in chunks: fo.write(chunk)
WriteChunk ==
    /\ pc = "Assembling"
    /\ written < Len(chunks)
    /\ fs' = WriteFile(fs, output_path.name,
                       fs[output_path.name] \o chunks[written + 1].body)
    /\ written' = written + 1
    /\ UNCHANGED <<config_vars, plan_vars, yt_vars, extract_vars, gv_vars, invocations, output_file_path, pc, calls, call_args,
                   output_path, total_size, head_result, ranges, connections,
                   chunks, raised, fs0>>

\* the file is closed and download() returns
Return ==
    /\ pc = "Assembling"
    /\ written = Len(chunks)
    /\ pc' = "Complete"
    /\ UNCHANGED <<config_vars, plan_vars, yt_vars, extract_vars, gv_vars, invocations, output_file_path, fs, calls, call_args,
                   output_path, total_size, head_result, ranges, connections,
                   chunks, written, raised, fs0>>

Next ==
    \/ \E size \in Sizes, path \in RequestedPaths : Call(size, path)
    \/ HeadTransportError
    \/ \E status \in {"ok", "status"}, has_length \in BOOLEAN : HeadResponse(status, has_length)
    \/ Plan
    \/ \E i \in 1..Len(chunks) : SendChunk(i)
    \/ \E i \in 1..Len(chunks) : ChunkOK(i)
    \/ \E i \in 1..Len(chunks) : ChunkFail(i)
    \/ FetchFailed
    \/ OpenFile
    \/ WriteChunk
    \/ Return

Spec == Init /\ [][Next]_vars

TypeOK ==
    /\ max_connections \in Nat
    /\ overwrite \in BOOLEAN
    /\ pc \in {"Pending", "ProbingHeaders", "Planning", "Fetching", "Assembling",
               "Complete", "Failed"}
    /\ calls \in 0..MaxCalls
    /\ head_result \in {"none", "ok", "status", "transport"}
    /\ raised \in {"none", "DownloadError", "RequestError"}
    /\ Len(chunks) = Len(ranges)
    /\ written \in 0..Len(chunks)

\* ------------------------------------------- the planner as a pure function
PlanMaxSize == 12       \* small sizes 0..PlanMaxSize given to the planner
PlanMaxForced == 6      \* forced connection counts 1..PlanMaxForced

BoundarySizes ==
    {MiB - 1, MiB, MiB + 1, 5 * MiB, 5 * MiB + 1, 10 * MiB, 50 * MiB, 50 * MiB + 1,
     200 * MiB, 200 * MiB + 1, 400 * MiB, 400 * MiB + 1}
PlanSizes == 0..PlanMaxSize \cup BoundarySizes
PlanCounts == {auto} \cup 1..PlanMaxForced

InitPlan ==
    /\ plan_in \in PlanCounts \X PlanSizes
    /\ plan_out = <<>>
    /\ max_connections = plan_in[1]
    /\ overwrite = TRUE
    /\ caller_headers = <<>>
    /\ headers = init_headers(caller_headers)
    /\ fs = << >>
    /\ fs0 = fs
    /\ NoCall /\ NoYT

\* _calculate_connections(total_size) and _get_chunk_ranges(total_size)
PlanStep ==
    /\ plan_out = <<>>
    /\ plan_out' = <<_calculate_connections(plan_in[1], plan_in[2]),
                     _get_chunk_ranges(plan_in[1], plan_in[2])>>
    /\ UNCHANGED <<config_vars, call_args, yt_vars, extract_vars, gv_vars, invocations,
                   plan_in, output_file_path, fs, pc, calls,
                   output_path, total_size, head_result, ranges, connections,
                   chunks, written, raised, fs0>>

NextPlan == PlanStep

SpecPlan == InitPlan /\ [][NextPlan]_vars

\* ------------------------------------------ __init__ over caller header maps
\* caller keys: the immutable and a base name in several casings, and a new name
CallerKeys ==
    {HAcceptEncoding, str_lower(HAcceptEncoding), str_upper(HAcceptEncoding),
     str_lower(HRange), str_upper(HRange),
     str_lower(HUserAgent), str_upper(HUserAgent),
     str_lower(HXToken)}
CallerValues == {"v1", "v2"}

\* a dict: items in insertion order, keys distinct
HeaderDicts ==
    UNION {{d \in [1..n -> CallerKeys \X CallerValues] :
                \A i, j \in 1..n : i # j => d[i][1] # d[j][1]} : n \in 0..MaxHeaders}

InitHeaders ==
    /\ caller_headers \in HeaderDicts
    /\ headers = init_headers(caller_headers)
    /\ max_connections = 1
    /\ overwrite = TRUE
    /\ fs = << >>
    /\ fs0 = fs
    /\ NoCall /\ NoPlan /\ NoYT

NextHeaders ==
    \/ Call(2, [is_dir |-> FALSE, name |-> <<>>])
    \/ HeadTransportError
    \/ \E status \in {"ok", "status"} : HeadResponse(status, TRUE)
    \/ Plan
    \/ \E i \in 1..Len(chunks) : SendChunk(i)
    \/ \E i \in 1..Len(chunks) : ChunkOK(i)
    \/ \E i \in 1..Len(chunks) : ChunkFail(i)
    \/ FetchFailed
    \/ OpenFile
    \/ WriteChunk
    \/ Return

SpecHeaders == InitHeaders /\ [][NextHeaders]_vars

\* ------------------------------- output paths whose directory may be missing
InitDirs ==
    /\ max_connections \in {auto, 2}
    /\ overwrite \in BOOLEAN
    /\ caller_headers = <<>>
    /\ headers = init_headers(caller_headers)
    /\ fs \in {[n \in d |-> OldContent] : d \in {{}, {<<1>>}}}
    /\ fs0 = fs
    /\ NoCall /\ NoPlan /\ NoYT

NextDirs ==
    \/ \E size \in {0, 2}, path \in RequestedPaths, parent \in BOOLEAN : CallIn(size, path, parent)
    \/ HeadTransportError
    \/ \E status \in {"ok", "status"} : HeadResponse(status, TRUE)
    \/ Plan
    \/ \E i \in 1..Len(chunks) : SendChunk(i)
    \/ \E i \in 1..Len(chunks) : ChunkOK(i)
    \/ \E i \in 1..Len(chunks) : ChunkFail(i)
    \/ FetchFailed
    \/ OpenFile
    \/ OpenFails
    \/ WriteChunk
    \/ Return

SpecDirs == InitDirs /\ [][NextDirs]_vars

\* ------------------------------------- a server whose every request succeeds
InitLive ==
    /\ max_connections = auto
    /\ overwrite = TRUE
    /\ caller_headers = <<>>
    /\ headers = init_headers(caller_headers)
    /\ fs \in InitialDirs
    /\ fs0 = fs
    /\ NoCall /\ NoPlan /\ NoYT

\* the steps of a started call
Progress ==
    \/ \E has_length \in BOOLEAN : HeadResponse("ok", has_length)
    \/ Plan
    \/ \E i \in 1..Len(chunks) : SendChunk(i)
    \/ \E i \in 1..Len(chunks) : ChunkOK(i)
    \/ OpenFile
    \/ WriteChunk
    \/ Return

NextLive ==
    \/ \E size \in Sizes, path \in RequestedPaths : Call(size, path)
    \/ Progress

\* the calling thread and the pool workers keep running, and the server
\* answers every request
SpecLive == InitLive /\ [][NextLive]_vars /\ WF_vars(Progress)

\* ================================================================ YouTube
\* (src/src/streamsnapper/core.py, src/src/streamsnapper/utils.py)
\*
\* Python values of the raw descriptor.  None is <<>> and a present value v
\* is <<v>>.  A scalar is an int or a str (the tuple of its characters);
\* numbers are integers here, so int() and float() agree on them.
None == <<>>
Some(v) == <<v>>
PyInt(n) == [t |-> "int", n |-> n, s |-> <<>>]
PyStr(s) == [t |-> "str", n |-> 0, s |-> s]

DigitVal == [c \in {Digits[i] : i \in 1..Len(Digits)} |->
                (CHOOSE i \in 1..Len(Digits) : Digits[i] = c) - 1]
IsDigit(c) == c \in DOMAIN DigitVal

\* str.strip()
RECURSIVE lstrip(_)
lstrip(s) == IF s # <<>> /\ s[1] = " " THEN lstrip(Tail(s)) ELSE s
RECURSIVE rstrip(_)
rstrip(s) ==
    IF s # <<>> /\ s[Len(s)] = " " THEN rstrip(SubSeq(s, 1, Len(s) - 1)) ELSE s
strip(s) == rstrip(lstrip(s))

\* the decimal numeral of a natural number, and back
RECURSIVE IntToStr(_)
IntToStr(n) ==
    IF n < 10 THEN << Digits[n + 1] >>
    ELSE Append(IntToStr(n \div 10), Digits[(n % 10) + 1])

IsNumeral(s) == s # <<>> /\ \A i \in 1..Len(s) : IsDigit(s[i])

RECURSIVE NumeralValue(_)
NumeralValue(s) ==
    IF s = <<>> THEN 0
    ELSE 10 * NumeralValue(SubSeq(s, 1, Len(s) - 1)) + DigitVal[s[Len(s)]]

\* str.split(sep)[0]: the text before the first separator
RECURSIVE split_first(_, _)
split_first(s, sep) ==
    IF s = <<>> \/ s[1] = sep THEN <<>>
    ELSE << s[1] >> \o split_first(Tail(s), sep)

\* str.replace(old, "") for a one-character old
RECURSIVE remove_char(_, _)
remove_char(s, c) ==
    IF s = <<>> THEN <<>>
    ELSE IF s[1] = c THEN remove_char(Tail(s), c)
    ELSE << s[1] >> \o remove_char(Tail(s), c)

\* the converters passed as convert_to: result [ok, v, err]; ok = FALSE
\* stands for a raised exception of kind err
ConvOK(v) == [ok |-> TRUE, v |-> v, err |-> ""]

ConvRaise(v, kind) == [ok |-> FALSE, v |-> v, err |-> kind]

\* float("inf"), a value on which int() raises OverflowError
PyInf == [t |-> "inf", n |-> 0, s |-> <<>>]

S_inf == <<"i", "n", "f">>

py_int(v) ==
    IF v.t = "int" THEN ConvOK(v)
    ELSE IF v.t = "inf" THEN ConvRaise(v, "OverflowError")
    ELSE IF IsNumeral(strip(v.s)) THEN ConvOK(PyInt(NumeralValue(strip(v.s))))
    ELSE ConvRaise(v, "ValueError")

py_float(v) == IF v.t = "inf" THEN ConvOK(v) ELSE py_int(v)

py_str(v) ==
    IF v.t = "str" THEN ConvOK(v)
    ELSE IF v.t = "inf" THEN ConvOK(PyStr(S_inf))
    ELSE ConvOK(PyStr(IntToStr(v.n)))

\* urllib.parse.unquote: a str without percent escapes is unchanged (the
\* alphabet has no "%"); anything else raises TypeError
py_unquote(v) == IF v.t = "str" THEN ConvOK(v) ELSE ConvRaise(v, "TypeError")

\* utils.strip_whitespace: str(value).strip()
strip_whitespace(v) == ConvOK(PyStr(strip(py_str(v).v.s)))

\* a list and a dict value; s holds the items of the list, the keys of the dict
PyList(items) == [t |-> "list", n |-> 0, s |-> items]

PyDictValue(keys) == [t |-> "dict", n |-> 0, s |-> keys]

\* list(value): the items of an iterable; TypeError for a number
py_list(v) ==
    CASE v.t = "list" -> ConvOK(v)
      [] v.t = "dict" -> ConvOK(PyList(v.s))
      [] v.t = "str" -> ConvOK(PyList([i \in 1..Len(v.s) |-> PyStr(<< v.s[i] >>)]))
      [] OTHER -> ConvRaise(v, "TypeError")

\* dict(value): a mapping, or an iterable of pairs (the list items of the
\* model are stream dicts and the str items characters, none is a pair)
py_dict(v) ==
    CASE v.t = "dict" -> ConvOK(v)
      [] v.t \in {"list", "str"} ->
            IF v.s = <<>> THEN ConvOK(PyDictValue(<<>>)) ELSE ConvRaise(v, "ValueError")
      [] OTHER -> ConvRaise(v, "TypeError")

apply_converter(converter, v) ==
    CASE converter = "int" -> py_int(v)
      [] converter = "float" -> py_float(v)
      [] converter = "str" -> py_str(v)
      [] converter = "unquote" -> py_unquote(v)
      [] converter = "strip_whitespace" -> strip_whitespace(v)
      [] converter = "list" -> py_list(v)
      [] converter = "dict" -> py_dict(v)

\* the exception kinds of the except clause of get_value
CaughtKinds == {"ValueError", "TypeError"}

\* an exception leaving get_value, carried in the place of the returned value
Raised(kind) == [t |-> kind, n |-> 0, s |-> <<>>]

IsRaised(v) == v.t \notin {"int", "str", "inf", "list", "dict"}

\* dict.get(key)
dict_get(data, key) == IF key \in DOMAIN data THEN data[key] ELSE None

\* utils.get_value, lines 90-97: the first fallback key that holds a value
RECURSIVE fallback_loop(_, _)
fallback_loop(data, fallback_keys) ==
    IF fallback_keys = <<>> THEN None
    ELSE IF dict_get(data, fallback_keys[1]) # None THEN dict_get(data, fallback_keys[1])
    ELSE fallback_loop(data, Tail(fallback_keys))

\* utils.get_value, lines 108-122
RECURSIVE convert_loop(_, _, _, _)
convert_loop(value, converters, i, default_to) ==
    IF i > Len(converters) THEN Some(value)
    ELSE LET r == apply_converter(converters[i], value)
         IN IF r.ok THEN Some(r.v)
            ELSE IF r.err \notin CaughtKinds THEN Some(Raised(r.err))
            ELSE IF converters[i] = converters[Len(converters)] THEN default_to
            ELSE convert_loop(value, converters, i + 1, default_to)

\* utils.get_value(data, key, fallback_keys, convert_to, default_to); an
\* absent or falsy fallback_keys is <<>>, an absent convert_to is <<>>
get_value(data, key, fallback_keys, convert_to, default_to) ==
    LET v0 == dict_get(data, key)
        v1 == IF v0 = None /\ fallback_keys # <<>>
              THEN fallback_loop(data, fallback_keys) ELSE v0
    IN IF v1 = None THEN default_to
       ELSE convert_loop(v1[1], convert_to, 1, default_to)

\* The rankers call get_value(stream, "width", 0, convert_to=int): the third
\* positional argument is fallback_keys, so the 0 (or "") given there is a
\* falsy fallback_keys and default_to stays None.
FalsyFallback == <<>>

\* ----------------------------------------------------- unbounded naturals
\* A score can exceed the machine integers of the checker, so products are
\* kept as numerals in base LimbBase, least significant limb first.
LimbBase == 10000

RECURSIVE BigNorm(_)
BigNorm(b) == IF b # <<>> /\ b[Len(b)] = 0 THEN BigNorm(SubSeq(b, 1, Len(b) - 1)) ELSE b

RECURSIVE BigOf(_)
BigOf(n) == IF n = 0 THEN <<>> ELSE << n % LimbBase >> \o BigOf(n \div LimbBase)

\* b * n + carry for 0 <= n < LimbBase
RECURSIVE BigMulCarry(_, _, _)
BigMulCarry(b, n, carry) ==
    IF b = <<>> THEN BigOf(carry)
    ELSE LET x == b[1] * n + carry
         IN << x % LimbBase >> \o BigMulCarry(Tail(b), n, x \div LimbBase)

BigMul(b, n) == BigNorm(BigMulCarry(b, n, 0))

\* a < b on normalised numerals
RECURSIVE BigLess(_, _)
BigLess(a, b) ==
    IF Len(a) # Len(b) THEN Len(a) < Len(b)
    ELSE IF a = <<>> THEN FALSE
    ELSE IF a[Len(a)] # b[Len(b)] THEN a[Len(a)] < b[Len(b)]
    ELSE BigLess(SubSeq(a, 1, Len(a) - 1), SubSeq(b, 1, Len(b) - 1))

\* ------------------------------------------------ analyze_video_streams
MaxStreams == 3

RECURSIVE SeqsUpTo(_, _)
SeqsUpTo(S, n) ==
    IF n = 0 THEN { <<>> }
    ELSE LET shorter == SeqsUpTo(S, n - 1)
         IN shorter \cup {Append(q, x) : q \in {r \in shorter : Len(r) = n - 1}, x \in S}

\* core.py lines 291-355
video_format_id_extension_map ==
    [id \in {133, 134, 135, 136, 137, 138, 160, 216, 264, 266, 298, 299, 304, 305,
             394, 395, 396, 397, 398, 399, 400, 401, 402, 571, 597, 694, 695, 696,
             697, 698, 699, 700, 701, 702, 721} |-> Some("mp4")]
    @@ [id \in {167, 168, 169, 170, 242, 243, 244, 247, 248, 271, 272, 278, 302, 303,
                308, 313, 315, 330, 331, 332, 333, 334, 335, 336, 337, 598, 612}
            |-> Some("webm")]

video_filter_any_number(stream) ==
    /\ get_value(stream, "vcodec", <<>>, <<>>, None) # Some("none")
    /\ get_value(stream, "format_id", <<>>, <<"int">>, None) # None

\* line 360, the filter of the video ranker
video_filter(stream) ==
    /\ get_value(stream, "vcodec", <<>>, <<>>, None) # Some("none")
    /\ LET id == get_value(stream, "format_id", <<>>, <<"int">>, None)
       IN id # None /\ id[1].n \in DOMAIN video_format_id_extension_map

\* calculate_score, lines 377-382: None stands for the TypeError of a product
\* with a None operand
calculate_score(stream) ==
    LET width == get_value(stream, "width", FalsyFallback, <<"int">>, None)
        height == get_value(stream, "height", FalsyFallback, <<"int">>, None)
        framerate == get_value(stream, "fps", FalsyFallback, <<"float">>, None)
        bitrate == get_value(stream, "tbr", FalsyFallback, <<"float">>, None)
    IN IF None \in {width, height, framerate, bitrate} THEN None
       ELSE Some(BigMul(BigMul(BigMul(BigOf(width[1].n), height[1].n),
                               framerate[1].n), bitrate[1].n))

\* sorted(..., key=..., reverse=True): the order of the indices of scores;
\* an element goes behind every element already placed whose key is not less
RECURSIVE insert_desc_ties_first(_, _, _)
insert_desc_ties_first(order, scores, i) ==
    IF order = <<>> THEN << i >>
    ELSE IF BigLess(scores[i], scores[order[1]])
         THEN << order[1] >> \o insert_desc_ties_first(Tail(order), scores, i)
         ELSE << i >> \o order

RECURSIVE insert_desc(_, _, _)
insert_desc(order, scores, i) ==
    IF order = <<>> THEN << i >>
    ELSE IF ~BigLess(scores[order[1]], scores[i])
         THEN << order[1] >> \o insert_desc(Tail(order), scores, i)
         ELSE << i >> \o order

RECURSIVE sorted_reverse_upto(_, _)
sorted_reverse_upto(scores, k) ==
    IF k = 0 THEN <<>>
    ELSE insert_desc(sorted_reverse_upto(scores, k - 1), scores, k)

sorted_reverse(scores) == sorted_reverse_upto(scores, Len(scores))

Elems(q) == {q[i] : i \in 1..Len(q)}
MapSeq(Op(_), q) == [i \in 1..Len(q) |-> Op(q[i])]
Values(q) == [i \in 1..Len(q) |-> q[i][1]]
Reorder(q, order) == [k \in 1..Len(q) |-> q[order[k]]]

\* sorted(streams, key=..., reverse=True) given the keys: None when a key
\* evaluation raised TypeError
sorted_by(streams, scores) ==
    IF None \in Elems(scores) THEN None
    ELSE Some(Reorder(streams, sorted_reverse(Values(scores))))

\* extract_stream_info of the video ranker, lines 397-421 (the fields the
\* properties below read)
video_extract_stream_info(stream) ==
    LET youtube_format_id == get_value(stream, "format_id", <<>>, <<"int">>, None)
        height == get_value(stream, "height", <<>>, <<"int">>, None)
    IN [url |-> get_value(stream, "url", <<>>, <<"unquote", "strip_whitespace">>, None),
        raw_codec |-> get_value(stream, "vcodec", <<>>, <<>>, None),
        extension |-> get_value(video_format_id_extension_map, youtube_format_id[1].n,
                                <<>>, <<>>, Some("mp4")),
        width |-> get_value(stream, "width", <<>>, <<"int">>, None),
        height |-> height,
        framerate |-> get_value(stream, "fps", <<>>, <<"float">>, None),
        bitrate |-> get_value(stream, "tbr", <<>>, <<"float">>, None),
        youtube_format_id |-> youtube_format_id,
        quality |-> height]

\* list(dict.fromkeys(items))
RECURSIVE dict_fromkeys(_)
dict_fromkeys(items) ==
    IF items = <<>> THEN <<>>
    ELSE LET front == dict_fromkeys(SubSeq(items, 1, Len(items) - 1))
             last == items[Len(items)]
         IN IF \E i \in 1..Len(front) : front[i] = last THEN front
            ELSE Append(front, last)

Truthy(v) == v # None /\ v[1].n # 0
QualityLabel(info) == IntToStr(info.quality[1].n) \o << "p" >>
MaxOf(S) == CHOOSE m \in S : \A x \in S : x <= m
FirstOr(streams, empty) == IF streams # <<>> THEN PyDict(streams[1]) ELSE empty
UrlOf(d) == IF d.items # <<>> THEN d.items[1].url ELSE None

S_all == << "a", "l", "l" >>

\* the steps of analyze_video_streams, lines 357-425
video_streams == SelectSeq(_raw_youtube_streams, video_filter)
video_scores == MapSeq(calculate_score, video_streams)
sorted_video_streams == sorted_by(video_streams, video_scores)
all_video_infos == MapSeq(video_extract_stream_info, sorted_video_streams[1])

MinOf(S) == CHOOSE m \in S : \A x \in S : m <= x

narrow_video_lowest(infos, qualities, preferred_quality) ==
    LET wanted == str_lower(strip(preferred_quality))
        IsTier(q) == LET F(info) == info.quality[1].n = q IN SelectSeq(infos, F)
    IN IF wanted \notin Elems(qualities)
       THEN IsTier(MinOf({infos[i].quality[1].n : i \in 1..Len(infos)}))
       ELSE IsTier(py_int(PyStr(remove_char(wanted, "p"))).v.n)

narrow_video(infos, qualities, preferred_quality) ==
    LET wanted == str_lower(strip(preferred_quality))
        IsTier(q) == LET F(info) == info.quality[1].n = q IN SelectSeq(infos, F)
    IN IF wanted \notin Elems(qualities)
       THEN IsTier(MaxOf({infos[i].quality[1].n : i \in 1..Len(infos)}))
       ELSE IsTier(py_int(PyStr(remove_char(wanted, "p"))).v.n)

video_select_narrow_first(infos, preferred_quality) ==
    LET HasQuality(info) == Truthy(info.quality)
        all_qualities == dict_fromkeys(MapSeq(QualityLabel, SelectSeq(infos, HasQuality)))
        kept == IF preferred_quality # S_all
                THEN narrow_video(infos, all_qualities, preferred_quality) ELSE infos
        best == IF preferred_quality # S_all
                THEN FirstOr(kept, PyEmptyDict) ELSE PyDict(infos[1])
    IN [streams |-> Some(kept), stream |-> best, url |-> UrlOf(best),
        qualities |-> dict_fromkeys(MapSeq(QualityLabel, SelectSeq(kept, HasQuality))),
        raised |-> "none"]

\* lines 429-447, on a non-empty list of extracted streams
video_select(infos, preferred_quality) ==
    LET HasQuality(info) == Truthy(info.quality)
        qualities == dict_fromkeys(MapSeq(QualityLabel, SelectSeq(infos, HasQuality)))
        kept == IF preferred_quality # S_all
                THEN narrow_video(infos, qualities, preferred_quality) ELSE infos
        best == IF preferred_quality # S_all
                THEN FirstOr(kept, PyEmptyDict) ELSE PyDict(infos[1])
    IN [streams |-> Some(kept), stream |-> best, url |-> UrlOf(best),
        qualities |-> qualities, raised |-> "none"]

\* what analyze_video_streams(preferred_quality) leaves in the attributes and
\* raises, given the outcome of sorted()
video_outcome(sorted, preferred_quality) ==
    IF sorted = None
    THEN \* line 384: the key function raises inside sorted()
         [streams |-> best_video_streams, stream |-> best_video_stream,
          url |-> best_video_download_url, qualities |-> available_video_qualities,
          raised |-> "TypeError"]
    ELSE IF sorted[1] = <<>>
    THEN \* lines 423-430: the attributes are None, iterating None raises
         [streams |-> None, stream |-> PyNoneDict, url |-> None,
          qualities |-> available_video_qualities, raised |-> "TypeError"]
    ELSE video_select(MapSeq(video_extract_stream_info, sorted[1]), preferred_quality)

video_assign(outcome) ==
    /\ best_video_streams' = outcome.streams
    /\ best_video_stream' = outcome.stream
    /\ best_video_download_url' = outcome.url
    /\ available_video_qualities' = outcome.qualities
    /\ yt_raised' = outcome.raised

analyze_video_streams ==
    /\ yt_pc = "ready_video"
    /\ yt_pc' = "done_video"
    /\ video_assign(video_outcome(sorted_video_streams, preferred))
    /\ UNCHANGED <<config_vars, call_args, plan_vars, extract_vars, gv_vars, invocations,
                   output_file_path, fs, pc, calls,
                   output_path, total_size, head_result, ranges, connections, chunks,
                   written, raised, fs0, _raw_youtube_streams, system_language_prefix,
                   audio_vars, preferred>>

\* descriptors of the video check
VideoStream(id, vcodec, w, h, fps, tbr, url) ==
    [format_id |-> id, vcodec |-> vcodec, width |-> w, height |-> h, fps |-> fps,
     tbr |-> tbr, url |-> Some(PyStr(url))]

V137 == VideoStream(Some(PyStr(<<"1","3","7">>)), Some("avc1"), Some(PyInt(1920)),
                    Some(PyInt(1080)), Some(PyInt(30)), Some(PyInt(5000)), <<"a">>)
V137_low == VideoStream(Some(PyStr(<<"1","3","7">>)), Some("avc1"), Some(PyInt(1920)),
                    Some(PyInt(1080)), Some(PyInt(30)), Some(PyInt(4000)), <<"a">>)
V136 == VideoStream(Some(PyInt(136)), Some("avc1"), Some(PyInt(1280)),
                    Some(PyInt(720)), Some(PyInt(30)), Some(PyInt(2500)), <<"b">>)
V248 == VideoStream(Some(PyStr(<<"2","4","8">>)), Some("vp9"), Some(PyInt(1920)),
                    Some(PyInt(1080)), Some(PyInt(30)), Some(PyInt(4000)), <<"c">>)
V216 == VideoStream(Some(PyStr(<<"2","1","6">>)), Some("avc1"), Some(PyInt(1920)),
                    Some(PyInt(1080)), Some(PyInt(30)), Some(PyInt(5000)), <<"d">>)
V135_no_tbr == VideoStream(Some(PyStr(<<"1","3","5">>)), Some("avc1"), Some(PyInt(854)),
                    Some(PyInt(480)), Some(PyInt(30)), None, <<"e">>)
V134_still_lo == VideoStream(Some(PyStr(<<"1","3","4">>)), Some("avc1"), Some(PyInt(640)),
                    Some(PyInt(360)), Some(PyInt(0)), Some(PyInt(300)), <<"f">>)
V134_still_hi == VideoStream(Some(PyStr(<<"1","3","4">>)), Some("avc1"), Some(PyInt(640)),
                    Some(PyInt(360)), Some(PyInt(0)), Some(PyInt(800)), <<"f">>)
V137_audio_only == VideoStream(Some(PyStr(<<"1","3","7">>)), Some("none"), None,
                    None, None, None, <<"g">>)
V137_variant == VideoStream(Some(PyStr(<<"1","3","7","-","1">>)), Some("avc1"),
                    Some(PyInt(1920)), Some(PyInt(1080)), Some(PyInt(30)),
                    Some(PyInt(9000)), <<"h">>)
V999 == VideoStream(Some(PyInt(999)), Some("avc1"), Some(PyInt(1920)),
                    Some(PyInt(1080)), Some(PyInt(30)), Some(PyInt(9000)), <<"i">>)

VideoCatalogue == {V137, V137_low, V136, V248, V216, V135_no_tbr, V134_still_lo, V134_still_hi,
                   V137_audio_only, V137_variant, V999}

PreferredQualities == {S_all, <<"1","0","8","0","p">>, <<" ","7","2","0","P"," ">>,
                       <<"1","4","4","p">>}

InitVideo ==
    /\ max_connections = auto /\ overwrite = TRUE
    /\ caller_headers = <<>> /\ headers = init_headers(caller_headers)
    /\ fs = << >> /\ fs0 = fs
    /\ NoCall /\ NoPlan
    /\ FreshYouTube /\ NoOther
    /\ _raw_youtube_streams \in SeqsUpTo(VideoCatalogue, MaxStreams)
    /\ system_language_prefix = <<"e", "n">>
    /\ preferred \in PreferredQualities
    /\ yt_pc = "ready_video" /\ yt_raised = "none"

NextVideo == analyze_video_streams

SpecVideo == InitVideo /\ [][NextVideo]_vars

\* ------------------------------------------------ analyze_audio_streams
\* core.py lines 460-478; the keys are strings
audio_format_id_extension_map ==
    [id \in {IntToStr(n) : n \in {773, 380, 328, 325, 258, 327, 141, 256, 140, 139, 599}}
        |-> Some("mp4")]
    @@ [id \in {IntToStr(n) : n \in {338, 774, 251, 250, 249, 600}} |-> Some("webm")]

\* lines 483-484, the filter of the audio ranker on one stream: the stream is
\* kept, dropped, or .split is looked up on a value that is not a str
audio_filter(stream) ==
    IF get_value(stream, "acodec", <<>>, <<>>, None) = Some("none") THEN "drop"
    ELSE LET id == get_value(stream, "format_id", FalsyFallback, <<>>, None)
         IN IF id = None \/ id[1].t # "str" THEN "AttributeError"
            ELSE IF split_first(id[1].s, "-") \in DOMAIN audio_format_id_extension_map
            THEN "keep" ELSE "drop"

\* calculate_score of the audio ranker, lines 501-506, in thousandths:
\* bitrate * 0.1 + sample_rate / 1000; None stands for the TypeError of
\* arithmetic on None
audio_calculate_score(stream) ==
    LET bitrate == get_value(stream, "abr", FalsyFallback, <<"float">>, None)
        sample_rate == get_value(stream, "asr", FalsyFallback, <<"float">>, None)
    IN IF None \in {bitrate, sample_rate} THEN None
       ELSE Some(BigOf(bitrate[1].n * 100 + sample_rate[1].n))

\* sub in s
Contains(s, sub) ==
    \E i \in 1..(Len(s) - Len(sub) + 1) : SubSeq(s, i, i + Len(sub) - 1) = sub

py_islower_some_lower(s) == \E i \in 1..Len(s) : IsCased(s[i]) /\ lower(s[i]) = s[i]

\* str.islower(): some cased character and no upper-case one
py_islower(s) ==
    /\ \E i \in 1..Len(s) : IsCased(s[i])
    /\ \A i \in 1..Len(s) : lower(s[i]) = s[i]

S_default == << "(", "d", "e", "f", "a", "u", "l", "t", ")" >>
S_local == << "l", "o", "c", "a", "l" >>
S_source == << "s", "o", "u", "r", "c", "e" >>

\* extract_stream_info of the audio ranker, lines 520-544 (the fields the
\* properties below read); only kept streams reach it, their identifier is a
\* str that starts with a key of the map
audio_extract_stream_info(stream) ==
    LET youtube_format_id ==
            NumeralValue(split_first(
                get_value(stream, "format_id", <<>>, <<"str">>, None)[1].s, "-"))
        youtube_format_note == get_value(stream, "format_note", <<>>, <<>>, None)
    IN [url |-> get_value(stream, "url", <<>>, <<"unquote", "strip_whitespace">>, None),
        raw_codec |-> get_value(stream, "acodec", <<>>, <<>>, None),
        extension |-> get_value(audio_format_id_extension_map, IntToStr(youtube_format_id),
                                << <<"m">>, <<"p">>, <<"3">> >>, <<>>, None),
        bitrate |-> get_value(stream, "abr", <<>>, <<"float">>, None),
        samplerate |-> get_value(stream, "asr", <<>>, <<"int">>, None),
        quality_note |-> youtube_format_note,
        is_original_audio |->
            IF youtube_format_note # None /\ youtube_format_note[1] # <<>>
            THEN Some(Contains(youtube_format_note[1], S_default)
                      \/ py_islower(youtube_format_note[1]))
            ELSE None,
        language |-> get_value(stream, "language", <<>>, <<>>, None),
        youtube_format_id |-> Some(PyInt(youtube_format_id))]

\* the steps of analyze_audio_streams, lines 480-548
audio_filter_raises == \E i \in 1..Len(_raw_youtube_streams) :
                           audio_filter(_raw_youtube_streams[i]) = "AttributeError"
KeepAudio(stream) == audio_filter(stream) = "keep"
audio_streams == SelectSeq(_raw_youtube_streams, KeepAudio)
audio_scores == MapSeq(audio_calculate_score, audio_streams)
sorted_audio_streams == sorted_by(audio_streams, audio_scores)
all_audio_infos == MapSeq(audio_extract_stream_info, sorted_audio_streams[1])

HasLanguage(info) == info.language # None /\ info.language[1] # <<>>
LoweredLanguage(info) == str_lower(info.language[1])
IsOriginal(info) == info.is_original_audio = Some(TRUE)

\* lines 556-571
narrow_audio(infos, languages, preferred_language) ==
    LET wanted == str_lower(strip(preferred_language))
        InSystem(info) == info.language = Some(system_language_prefix)
        local_found == wanted = S_local /\ system_language_prefix \in Elems(languages)
        policy == IF wanted = S_local /\ ~local_found THEN S_source ELSE wanted
        InWanted(info) == info.language = Some(policy)
    IN IF local_found THEN SelectSeq(infos, InSystem)
       ELSE IF policy = S_source THEN SelectSeq(infos, IsOriginal)
       ELSE SelectSeq(infos, InWanted)

\* lines 552-574, on a non-empty list of extracted streams
audio_select(infos, preferred_language) ==
    LET languages == dict_fromkeys(MapSeq(LoweredLanguage, SelectSeq(infos, HasLanguage)))
        kept == IF preferred_language # S_all
                THEN narrow_audio(infos, languages, preferred_language) ELSE infos
        best == IF preferred_language # S_all
                THEN FirstOr(kept, PyEmptyDict) ELSE PyDict(infos[1])
    IN [streams |-> Some(kept), stream |-> best, url |-> UrlOf(best),
        languages |-> languages, raised |-> "none"]

\* what analyze_audio_streams(preferred_language) leaves in the attributes
\* and raises, given the outcome of the filter and of sorted()
audio_outcome(filter_raises, sorted, preferred_language) ==
    IF filter_raises \/ sorted = None
    THEN \* lines 480-485: .split on a value that is not a str;
         \* line 508: the key function raises inside sorted()
         [streams |-> best_audio_streams, stream |-> best_audio_stream,
          url |-> best_audio_download_url, languages |-> available_audio_languages,
          raised |-> IF filter_raises THEN "AttributeError" ELSE "TypeError"]
    ELSE IF sorted[1] = <<>>
    THEN \* lines 546-553: the attributes are None, iterating None raises
         [streams |-> None, stream |-> PyNoneDict, url |-> None,
          languages |-> available_audio_languages, raised |-> "TypeError"]
    ELSE audio_select(MapSeq(audio_extract_stream_info, sorted[1]), preferred_language)

audio_assign(outcome) ==
    /\ best_audio_streams' = outcome.streams
    /\ best_audio_stream' = outcome.stream
    /\ best_audio_download_url' = outcome.url
    /\ available_audio_languages' = outcome.languages
    /\ yt_raised' = outcome.raised

analyze_audio_streams ==
    /\ yt_pc = "ready_audio"
    /\ yt_pc' = "done_audio"
    /\ audio_assign(audio_outcome(audio_filter_raises, sorted_audio_streams, preferred))
    /\ UNCHANGED <<config_vars, call_args, plan_vars, extract_vars, gv_vars, invocations,
                   output_file_path, fs, pc, calls,
                   output_path, total_size, head_result, ranges, connections, chunks,
                   written, raised, fs0, _raw_youtube_streams, system_language_prefix,
                   video_vars, preferred>>

\* descriptors of the audio check
AudioStream(id, acodec, abr, asr, language, note, url) ==
    [format_id |-> id, acodec |-> acodec, abr |-> abr, asr |-> asr,
     language |-> language, format_note |-> note, url |-> Some(PyStr(url))]

S_en == << "e", "n" >>
S_es == << "e", "s" >>
S_EN == << "E", "N" >>
S_en_US == << "e", "n", "-", "U", "S" >>
S_251 == << "2", "5", "1" >>
S_140 == << "1", "4", "0" >>

A251_en_default == AudioStream(Some(PyStr(S_251)), Some("opus"), Some(PyInt(128)),
    Some(PyInt(48000)), Some(S_en), Some(<<"E","n"," ">> \o S_default), <<"a">>)
A140_en_medium == AudioStream(Some(PyStr(S_140)), Some("mp4a"), Some(PyInt(129)),
    Some(PyInt(44100)), Some(S_en), Some(<<"m","e","d","i","u","m">>), <<"b">>)
A251_1_es_dub == AudioStream(Some(PyStr(S_251 \o <<"-","1">>)), Some("opus"),
    Some(PyInt(128)), Some(PyInt(48000)), Some(S_es), Some(<<"D","u","b">>), <<"c">>)
A140_en_US == AudioStream(Some(PyStr(S_140)), Some("mp4a"), Some(PyInt(129)),
    Some(PyInt(44100)), Some(S_en_US), Some(<<"D","u","b">>), <<"d">>)
A251_EN == AudioStream(Some(PyStr(S_251)), Some("opus"), Some(PyInt(128)),
    Some(PyInt(48000)), Some(S_EN), Some(<<"D","u","b">>), <<"e">>)
A251_int_id == AudioStream(Some(PyInt(251)), Some("opus"), Some(PyInt(128)),
    Some(PyInt(48000)), Some(S_es), Some(<<"D","u","b">>), <<"f">>)
A_no_id == AudioStream(None, Some("opus"), Some(PyInt(128)),
    Some(PyInt(48000)), Some(S_es), None, <<"g">>)
A140_no_note == AudioStream(Some(PyStr(S_140)), Some("mp4a"), Some(PyInt(129)),
    Some(PyInt(44100)), Some(S_es), None, <<"j">>)
A137_video_only == AudioStream(Some(PyStr(<<"1","3","7">>)), Some("none"), None,
    None, None, None, <<"h">>)
A999 == AudioStream(Some(PyStr(<<"9","9","9">>)), Some("opus"), Some(PyInt(128)),
    Some(PyInt(48000)), Some(S_en), Some(<<"m","e","d","i","u","m">>), <<"i">>)

AudioCatalogue == {A251_en_default, A140_en_medium, A251_1_es_dub, A140_en_US, A251_EN,
                   A251_int_id, A_no_id, A140_no_note, A137_video_only, A999}

PreferredLanguages == {S_all, S_local, S_source, S_en_US, S_es}

InitAudio ==
    /\ max_connections = auto /\ overwrite = TRUE
    /\ caller_headers = <<>> /\ headers = init_headers(caller_headers)
    /\ fs = << >> /\ fs0 = fs
    /\ NoCall /\ NoPlan
    /\ FreshYouTube /\ NoOther
    /\ _raw_youtube_streams \in SeqsUpTo(AudioCatalogue, MaxStreams)
    /\ system_language_prefix = S_en
    /\ preferred \in PreferredLanguages
    /\ yt_pc = "ready_audio" /\ yt_raised = "none"

NextAudio == analyze_audio_streams

SpecAudio == InitAudio /\ [][NextAudio]_vars

\* ------------------------------------------- both rankers on one object
RankVideoCatalogue == {V137, V136, V248, V134_still_hi}
RankAudioCatalogue == {A251_en_default, A251_1_es_dub, A140_en_US, A251_EN, A140_no_note}

InitRank ==
    /\ max_connections = auto /\ overwrite = TRUE
    /\ caller_headers = <<>> /\ headers = init_headers(caller_headers)
    /\ fs = << >> /\ fs0 = fs
    /\ NoCall /\ NoPlan
    /\ FreshYouTube /\ NoOther
    /\ system_language_prefix = S_en
    /\ yt_raised = "none"
    /\ \/ /\ yt_pc = "ready_video"
          /\ _raw_youtube_streams \in SeqsUpTo(RankVideoCatalogue, MaxStreams)
          /\ preferred \in PreferredQualities
       \/ /\ yt_pc = "ready_audio"
          /\ _raw_youtube_streams \in SeqsUpTo(RankAudioCatalogue, MaxStreams)
          /\ preferred \in PreferredLanguages

NextRank ==
    \/ analyze_video_streams
    \/ analyze_audio_streams

SpecRank == InitRank /\ [][NextRank]_vars

\* ================================================================== claims
\* helpers of the statements below
RECURSIVE Coalesce(_)
Coalesce(content) ==
    IF Len(content) <= 1 THEN content
    ELSE LET rest == Coalesce(Tail(content))
         IN IF content[1][2] + 1 = rest[1][1] /\ content[1][1] >= 0
            THEN << <<content[1][1], rest[1][2]>> >> \o Tail(rest)
            ELSE << content[1] >> \o rest

RECURSIVE ByteCount(_)
ByteCount(content) ==
    IF content = <<>> THEN 0
    ELSE (content[1][2] - content[1][1] + 1) + ByteCount(Tail(content))

RECURSIVE JoinBodies(_, _)
JoinBodies(cs, n) ==
    IF n = 0 THEN <<>> ELSE JoinBodies(cs, n - 1) \o cs[n].body

\* the documented size table
TableCount(size) ==
    CASE size < MiB -> 1
      [] size >= MiB /\ size <= 5 * MiB -> 4
      [] size > 5 * MiB /\ size <= 50 * MiB -> 8
      [] size > 50 * MiB /\ size <= 200 * MiB -> 16
      [] size > 200 * MiB /\ size <= 400 * MiB -> 24
      [] size > 400 * MiB -> 32

PlannedCount == IF max_connections # auto THEN max_connections ELSE TableCount(total_size)

\* the path after the directory join of line 226
Target == IF arg_path.is_dir THEN suggested_filename ELSE arg_path.name
PathResolved == pc \in {"Planning", "Fetching", "Assembling", "Complete"}
               \/ (pc = "Failed" /\ head_result # "transport")

\* C1: when HEAD reports the size S > 0 of the resource and every request
\* succeeds, the file written by download is the resource, byte for byte, and
\* its length is S.
C1_ByteForByte ==
    (pc = "Complete" /\ head_result = "ok" /\ total_size > 0)
        => /\ Coalesce(fs[output_path.name]) = WholeBody(url_size)
           /\ ByteCount(fs[output_path.name]) = total_size

\* C2: for S > 0 the ranges of _get_chunk_ranges partition [0, S): they start
\* at 0, are contiguous, non-empty, end at S - 1 and are at most N; for S = 0
\* the result is the single range (0, 0).
C2_Partition ==
    plan_out # <<>> =>
        LET S == plan_in[2]
            N == plan_out[1]
            r == plan_out[2]
        IN IF S = 0 THEN r = << <<0, 0>> >>
           ELSE /\ Len(r) >= 1 /\ Len(r) <= N
                /\ r[1][1] = 0
                /\ r[Len(r)][2] = S - 1
                /\ \A i \in 1..Len(r) : r[i][1] <= r[i][2]
                /\ \A i \in 1..(Len(r) - 1) : r[i + 1][1] = r[i][2] + 1

C2_Witness ==
    /\ plan_out # <<>>
    /\ plan_in[2] > 0
    /\ Len(plan_out[2]) >= 3
    /\ LET r == plan_out[2]
       IN r[Len(r)][2] - r[Len(r)][1] < r[1][2] - r[1][1]

\* C3: once a chunk GET has failed, the output directory stays exactly as it
\* was when the call started, and the call ends by raising DownloadError.
C3_NoPartialFile ==
    FailedChunks # {} =>
        /\ fs = fs0
        /\ pc \in {"Fetching", "Failed"}
        /\ pc = "Failed" => raised = "DownloadError"

C3_Witness ==
    /\ pc = "Failed"
    /\ FailedChunks # {}
    /\ \E i \in DOMAIN chunks : chunks[i].st = "done"
    /\ output_path.name \in DOMAIN fs

\* C4: a failed HEAD probe reaches the caller as RequestError and a failed
\* chunk GET as DownloadError.
C4_DistinctKinds ==
    pc = "Failed" =>
        /\ head_result = "transport" => raised = "RequestError"
        /\ FailedChunks # {} => raised = "DownloadError"

\* C5: when the HEAD probe raises or returns a non-success status the call
\* fails: it raises, issues no GET and writes no file.
C5_HeadFailureFails ==
    head_result \in {"transport", "status"} =>
        /\ pc = "Failed"
        /\ raised # "none"
        /\ \A i \in DOMAIN chunks : chunks[i].st = "queued"
        /\ fs = fs0

\* C6: the number of chunk GETs in flight never exceeds the planned
\* connection count (table value or forced count).
C6_BoundedInFlight ==
    Cardinality(InFlight) <= PlannedCount

C6_Witness ==
    /\ PlannedCount >= 2
    /\ Cardinality(InFlight) = PlannedCount

\* C7: with overwrite disabled the final path is the requested path when no
\* file is there, else <stem>_k<ext> for the least k >= 1 that is free, and
\* no file that existed before is modified; with overwrite enabled the
\* requested path is used and its content replaced.
C7_CollisionPolicy ==
    PathResolved =>
        LET p == output_path.name
        IN /\ output_file_path = {p}
           /\ overwrite => p = Target
           /\ ~overwrite =>
                IF Target \notin DOMAIN fs0 THEN p = Target
                ELSE \E k \in 1..(Cardinality(DOMAIN fs0) + 1) :
                        /\ p = Target \o <<k>>
                        /\ p \notin DOMAIN fs0
                        /\ \A j \in 1..(k - 1) : (Target \o <<j>>) \in DOMAIN fs0
           /\ \A n \in DOMAIN fs0 \ {p} : n \in DOMAIN fs /\ fs[n] = fs0[n]
           /\ pc = "Complete" =>
                /\ p \in DOMAIN fs
                /\ fs[p] = JoinBodies(chunks, Len(chunks))
                /\ DOMAIN fs = DOMAIN fs0 \cup {p}

C7_Witness ==
    /\ pc = "Complete" /\ calls = 2 /\ ~overwrite
    /\ Target = <<>>
    /\ output_path.name = <<2>>
    /\ <<1>> \in DOMAIN fs /\ fs[<<1>>] # OldContent
    /\ fs[<<>>] = OldContent

\* C8: in automatic mode the connection count follows the size table (1 below
\* 1 MiB, 4 up to 5 MiB, 8 up to 50 MiB, 16 up to 200 MiB, 24 up to 400 MiB,
\* 32 above); a forced count is returned for every size.
C8_Table ==
    plan_out # <<>> =>
        LET size == plan_in[2]
            n == plan_out[1]
        IN /\ plan_in[1] # auto => n = plan_in[1]
           /\ plan_in[1] = auto =>
                /\ n = TableCount(size)
                /\ size = MiB - 1 => n = 1
                /\ size = MiB => n = 4
                /\ size = 5 * MiB => n = 4
                /\ size = 5 * MiB + 1 => n = 8
                /\ size = 400 * MiB => n = 24
                /\ size = 400 * MiB + 1 => n = 32

C8_Witness ==
    /\ plan_out # <<>>
    /\ plan_in = <<auto, 5 * MiB + 1>>
    /\ plan_out[1] = 8

\* C9: whatever headers the caller supplies, in any casing, and across
\* download calls, self.headers keeps Accept-Encoding: identity and never
\* holds a Range key; Range exists only in the copy sent with a chunk request.
C9_ImmutableHeaders ==
    /\ HAcceptEncoding \in DOMAIN headers
    /\ headers[HAcceptEncoding] = "identity"
    /\ \A k \in DOMAIN headers : str_lower(k) # str_lower(HRange)
    /\ \A k \in DOMAIN headers : str_lower(k) = str_lower(HAcceptEncoding) => k = HAcceptEncoding

C9_Witness ==
    /\ \E i \in DOMAIN caller_headers : caller_headers[i][1] = str_lower(HAcceptEncoding)
    /\ \E i \in DOMAIN caller_headers : caller_headers[i][1] = str_upper(HRange)
    /\ calls = MaxCalls
    /\ \E i \in DOMAIN chunks : chunks[i].range_hdr # <<>>

\* the value the caller gave last for a header name, in any casing
SameName(a, b) == str_lower(a) = str_lower(b)
Supplied(name) == {i \in DOMAIN caller_headers : SameName(caller_headers[i][1], name)}
LastSupplied(name) ==
    caller_headers[CHOOSE i \in Supplied(name) : \A j \in Supplied(name) : j <= i][2]

\* C10 as stated: the base values of Accept, Accept-Encoding and User-Agent
\* survive every caller header map, and caller keys outside the base set are
\* added.
C10_BaseNeverOverridden ==
    /\ \A k \in DOMAIN BaseHeaders : k \in DOMAIN headers /\ headers[k] = BaseHeaders[k]
    /\ \A i \in DOMAIN caller_headers :
          (\A k \in DOMAIN BaseHeaders : ~SameName(caller_headers[i][1], k))
              => \E k \in DOMAIN headers : SameName(k, caller_headers[i][1])

\* C10 amended: Accept-Encoding keeps its base value and Range is never
\* added; Accept and User-Agent keep their base value unless the caller
\* supplies that name (in any casing), in which case they hold the caller's
\* last value; every other caller key is added under its title-cased name.
C10_MergeKeepsImmutable ==
    /\ headers[HAcceptEncoding] = BaseHeaders[HAcceptEncoding]
    /\ HRange \notin DOMAIN headers
    /\ \A k \in {HAccept, HUserAgent} :
          headers[k] = IF Supplied(k) = {} THEN BaseHeaders[k] ELSE LastSupplied(k)
    /\ \A i \in DOMAIN caller_headers :
          LET key == caller_headers[i][1]
          IN (~SameName(key, HAcceptEncoding) /\ ~SameName(key, HRange))
                => /\ title(key) \in DOMAIN headers
                   /\ headers[title(key)] = LastSupplied(key)
    /\ \A k \in DOMAIN headers :
          k \in DOMAIN BaseHeaders \/ \E i \in DOMAIN caller_headers : k = title(caller_headers[i][1])

C10_Witness ==
    /\ Len(caller_headers) = 2
    /\ caller_headers[1][1] = str_lower(HUserAgent)
    /\ caller_headers[2][1] = str_upper(HUserAgent)
    /\ caller_headers[1][2] # caller_headers[2][2]
    /\ headers[HUserAgent] = caller_headers[2][2]
    /\ pc = "Complete"

\* C11: a download to a file path whose parent directories are missing, with
\* HEAD and every GET succeeding, does not fail: the directories are created
\* and the file is written.
C11_ParentsCreated ==
    (~parent_exists /\ pc = "Failed") => (head_result # "ok" \/ FailedChunks # {})

C13_PartialDataNeverRaises ==
    (yt_pc = "done_video" /\ video_streams # <<>>) => yt_raised = "none"

VideoReturned == yt_pc = "done_video" /\ yt_raised = "none"
Returned(streams) == IF streams = None THEN <<>> ELSE streams[1]
S_1080p == << "1", "0", "8", "0", "p" >>
S_144p == << "1", "4", "4", "p" >>

\* C15: after analyze_video_streams(q) returns: with 'all' the list is the
\* full score-ordered list; with a tier in availableQualities it is exactly
\* the candidates of that tier, in score order, and the best stream is the
\* first of them; with an absent tier it is exactly the candidates of the
\* greatest height.  For 137 (1920x1080@30@5000) and 136 (1280x720@30@2500)
\* with '1080p' it is one candidate, format 137, extension mp4.
C15_Narrowing ==
    VideoReturned =>
        LET infos == all_video_infos
            wanted == str_lower(strip(preferred))
            OfTier(info) == QualityLabel(info) = wanted
            top == MaxOf({infos[i].height[1].n : i \in 1..Len(infos)})
            OfTop(info) == info.height[1].n = top
            out == Returned(best_video_streams)
        IN /\ best_video_streams # None
           /\ preferred = S_all =>
                  out = infos /\ best_video_stream = PyDict(infos[1])
           /\ (preferred # S_all /\ wanted \in Elems(available_video_qualities)) =>
                  /\ out = SelectSeq(infos, OfTier)
                  /\ out # <<>> /\ best_video_stream = PyDict(out[1])
           /\ (preferred # S_all /\ wanted \notin Elems(available_video_qualities)) =>
                  out = SelectSeq(infos, OfTop)
           /\ (_raw_youtube_streams = <<V137, V136>> /\ preferred = S_1080p) =>
                  /\ Len(out) = 1
                  /\ out[1].youtube_format_id = Some(PyInt(137))
                  /\ out[1].extension = Some("mp4")

C15_Witness ==
    /\ VideoReturned
    /\ _raw_youtube_streams = <<V137, V136>> /\ preferred = S_1080p
    /\ Len(Returned(best_video_streams)) = 1

\* two output entries that differ in nothing but the bitrate
DifferOnlyInBitrate(a, b) ==
    a.bitrate # b.bitrate /\ [a EXCEPT !.bitrate = None] = [b EXCEPT !.bitrate = None]

HigherBitrate(a, b) == a.bitrate[1].n > b.bitrate[1].n
PositiveFrame(a) == a.width[1].n * a.height[1].n * a.framerate[1].n > 0

\* C16 (as stated): in the full score-ordered list, of two candidates that
\* differ only in bitrate the higher-bitrate one always comes first.
C16_HigherBitrateFirst ==
    (VideoReturned /\ preferred = S_all) =>
        LET out == Returned(best_video_streams)
        IN \A i, j \in 1..Len(out) :
               (DifferOnlyInBitrate(out[i], out[j]) /\ HigherBitrate(out[i], out[j]))
                   => i < j

\* the order a stable descending sort by score gives the survivors: greater
\* score first, equal scores in provider order
StableDescendingOrder(scores) ==
    CHOOSE p \in [1..Len(scores) -> 1..Len(scores)] :
        \A a, b \in 1..Len(scores) :
            a < b => \/ BigLess(scores[p[b]], scores[p[a]])
                     \/ (scores[p[a]] = scores[p[b]] /\ p[a] < p[b])

\* C16 (amended): whenever the video ranker returns, the full list is the
\* survivors stable-sorted descending by width x height x frame rate x
\* bitrate: equal scores keep provider order, and of two candidates that
\* differ only in bitrate and have positive width, height and frame rate the
\* higher-bitrate one comes first.
C16_StableDescending ==
    (VideoReturned /\ preferred = S_all) =>
        LET out == Returned(best_video_streams)
            p == StableDescendingOrder(Values(video_scores))
        IN /\ out = [k \in 1..Len(video_streams) |->
                         video_extract_stream_info(video_streams[p[k]])]
           /\ \A i, j \in 1..Len(out) :
                  (/\ DifferOnlyInBitrate(out[i], out[j])
                   /\ HigherBitrate(out[i], out[j])
                   /\ PositiveFrame(out[i])) => i < j

C16_Witness ==
    /\ VideoReturned /\ preferred = S_all
    /\ _raw_youtube_streams = <<V137_low, V216, V137>>
    /\ Returned(best_video_streams) =
           MapSeq(video_extract_stream_info, <<V216, V137, V137_low>>)

\* the format identifier is an integer, or the numeral of one, of the allow-list
AllowListed(stream) ==
    /\ stream.format_id # None
    /\ LET id == stream.format_id[1]
       IN IF id.t = "int" THEN id.n \in DOMAIN video_format_id_extension_map
          ELSE \E n \in DOMAIN video_format_id_extension_map : id.s = IntToStr(n)

Count(q, x) == Cardinality({i \in 1..Len(q) : q[i] = x})

\* C17: the video ranker keeps exactly the candidates whose codec is not
\* 'none' and whose format identifier, as an integer, is in the video
\* allow-list: nothing else appears in any result, with 'all' every such
\* candidate appears as often as it was given, and every entry's extension is
\* the allow-list's value for its identifier.
C17_FilterAllowList ==
    VideoReturned =>
        LET Keep(stream) == stream.vcodec # Some("none") /\ AllowListed(stream)
            kept == MapSeq(video_extract_stream_info, SelectSeq(_raw_youtube_streams, Keep))
            out == Returned(best_video_streams)
        IN /\ Elems(out) \subseteq Elems(kept)
           /\ preferred = S_all => \A x \in Elems(kept) : Count(out, x) = Count(kept, x)
           /\ \A i \in 1..Len(out) :
                  out[i].extension =
                      video_format_id_extension_map[out[i].youtube_format_id[1].n]

C17_Witness ==
    /\ VideoReturned /\ preferred = S_all
    /\ _raw_youtube_streams = <<V999, V248, V137_variant>>
    /\ Len(Returned(best_video_streams)) = 1
    /\ Returned(best_video_streams)[1].extension = Some("webm")

AudioReturned == yt_pc = "done_audio" /\ yt_raised = "none"

\* C14: when no candidate survives a ranker's filter, the call returns
\* without raising, whatever the preference, with no best stream, no
\* download URL and empty lists.
C14_EmptyReturns ==
    /\ (yt_pc = "done_video" /\ video_streams = <<>>) =>
           /\ yt_raised = "none"
           /\ Returned(best_video_streams) = <<>>
           /\ best_video_stream.items = <<>>
           /\ best_video_download_url = None
           /\ available_video_qualities = <<>>
    /\ (yt_pc = "done_audio" /\ ~audio_filter_raises /\ audio_streams = <<>>) =>
           /\ yt_raised = "none"
           /\ Returned(best_audio_streams) = <<>>
           /\ best_audio_stream.items = <<>>
           /\ best_audio_download_url = None
           /\ available_audio_languages = <<>>

\* the identifier of a stream without a '-N' suffix is in the audio allow-list
AudioAllowListed(stream) ==
    /\ stream.format_id # None
    /\ LET id == stream.format_id[1]
           text == IF id.t = "int" THEN IntToStr(id.n) ELSE id.s
       IN split_first(text, "-") \in DOMAIN audio_format_id_extension_map

\* C18: the audio ranker's filter never raises, whatever the type of the
\* format identifier and also without one, and keeps exactly the candidates
\* whose codec is not 'none' and whose identifier without its '-N' suffix is
\* in the audio allow-list.
C18_AudioFilter ==
    yt_pc = "done_audio" =>
        /\ yt_raised # "AttributeError"
        /\ (yt_raised = "none" /\ preferred = S_all) =>
               LET Keep(stream) == stream.acodec # Some("none") /\ AudioAllowListed(stream)
                   kept == SelectSeq(_raw_youtube_streams, Keep)
                   out == Returned(best_audio_streams)
               IN {out[i].url : i \in 1..Len(out)} = {kept[i].url : i \in 1..Len(kept)}

\* C19: under 'local', when the system language is in availableLanguages the
\* result is non-empty and is exactly the candidates in that language; when
\* it is not, list, best stream and URL are those of policy 'source'.
C19_LocalPolicy ==
    (AudioReturned /\ str_lower(strip(preferred)) = S_local) =>
        LET InSystem(info) ==
                HasLanguage(info) /\ LoweredLanguage(info) = system_language_prefix
            out == Returned(best_audio_streams)
            source == audio_select(all_audio_infos, S_source)
        IN IF system_language_prefix \in Elems(available_audio_languages)
           THEN out # <<>> /\ out = SelectSeq(all_audio_infos, InSystem)
           ELSE /\ best_audio_streams = source.streams
                /\ best_audio_stream = source.stream
                /\ best_audio_download_url = source.url

\* C20: under an explicit language code the result is exactly the candidates
\* whose language tag equals the requested code, in score order.
C20_ExplicitLanguage ==
    (AudioReturned /\ preferred \in {S_en_US, S_es}) =>
        LET Tagged(info) == info.language = Some(preferred)
        IN Returned(best_audio_streams) = SelectSeq(all_audio_infos, Tagged)

LowerLetterSet == {LowerLetters[i] : i \in 1..Len(LowerLetters)}
UpperLetterSet == {UpperLetters[i] : i \in 1..Len(UpperLetters)}

\* the isOriginalAudio flag a quality note stands for: null without a note,
\* true with the '(default)' marker or when entirely lowercase, else false
OriginalFlag(note) ==
    IF note = None \/ note = Some(<<>>) THEN None
    ELSE Some(\/ \E i \in 1..Len(note[1]) :
                     /\ i + 8 <= Len(note[1])
                     /\ [k \in 1..9 |-> note[1][i + k - 1]] = S_default
              \/ /\ Elems(note[1]) \cap LowerLetterSet # {}
                 /\ Elems(note[1]) \cap UpperLetterSet = {})

\* C21: under policy 'source' the result is exactly the candidates whose
\* isOriginalAudio flag is true, in score order; the flag of every ranked
\* candidate is the one its quality note stands for.
C21_SourcePolicy ==
    (AudioReturned /\ str_lower(strip(preferred)) = S_source) =>
        LET Flagged(info) == OriginalFlag(info.quality_note) = Some(TRUE)
        IN /\ \A i \in 1..Len(all_audio_infos) :
                  all_audio_infos[i].is_original_audio =
                      OriginalFlag(all_audio_infos[i].quality_note)
           /\ Returned(best_audio_streams) = SelectSeq(all_audio_infos, Flagged)

C21_Witness ==
    /\ AudioReturned /\ preferred = S_source
    /\ _raw_youtube_streams = <<A251_1_es_dub, A140_no_note, A251_en_default>>
    /\ Returned(best_audio_streams) = << audio_extract_stream_info(A251_en_default) >>

\* C22: in the full audio ranking, of two candidates with bitrate in 30..900
\* and sample rate in 22050..48000 the one with the strictly higher bitrate
\* comes first, whatever the sample rates.
C22_BitrateDominates ==
    (AudioReturned /\ preferred = S_all) =>
        LET out == Returned(best_audio_streams)
            InRange(info) == /\ info.bitrate[1].n \in 30..900
                             /\ info.samplerate[1].n \in 22050..48000
        IN \A i, j \in 1..Len(out) :
               (/\ InRange(out[i]) /\ InRange(out[j])
                /\ out[i].bitrate[1].n > out[j].bitrate[1].n) => i < j

\* q lists the distinct elements of items, each once, in first-seen order
FirstSeenOrder(items, q) ==
    /\ Elems(q) = Elems(items)
    /\ \A a, b \in 1..Len(q) : a < b =>
           LET First(x) == CHOOSE i \in 1..Len(items) :
                               items[i] = x /\ \A k \in 1..(i - 1) : items[k] # x
           IN q[a] # q[b] /\ First(q[a]) < First(q[b])

\* C23: after a returning analysis, available_video_qualities is the distinct
\* '{height}p' labels and available_audio_languages the distinct lower-cased
\* language tags of all ranked candidates, in first-seen (score) order,
\* without duplicates, whatever quality or language was requested.
C23_AvailableLists ==
    /\ VideoReturned =>
           LET Labelled(info) == info.height # None /\ info.height[1].n # 0
               Label(info) == IntToStr(info.height[1].n) \o << "p" >>
           IN FirstSeenOrder(MapSeq(Label, SelectSeq(all_video_infos, Labelled)),
                             available_video_qualities)
    /\ AudioReturned =>
           LET Tagged(info) == info.language # None /\ info.language[1] # <<>>
               Tag(info) == str_lower(info.language[1])
           IN FirstSeenOrder(MapSeq(Tag, SelectSeq(all_audio_infos, Tagged)),
                             available_audio_languages)

C23_Witness ==
    /\ VideoReturned
    /\ _raw_youtube_streams = <<V136, V248, V137>>
    /\ preferred = << " ", "7", "2", "0", "P", " " >>
    /\ available_video_qualities = << S_1080p, << "7", "2", "0", "p" >> >>
    /\ Len(Returned(best_video_streams)) = 1

\* ------------------------------------------------------- utils.get_value
\* get_value as a function of its arguments: Init draws the arguments, the
\* one action applies the function
MaxConverters == 3

S_12 == <<"1", "2">>
S_x == <<"x">>

\* what a key of the source mapping can hold: None, an int, a numeral, a word,
\* the empty string, float("inf")
GVValues == {None, Some(PyInt(7)), Some(PyStr(S_12)), Some(PyStr(S_x)), Some(PyStr(<<>>)),
             Some(PyInf)}

GVData == [{"a", "b"} -> GVValues]

GVKeys == {"a", "c"}

GVFallbackKeys == {<<>>, <<"b">>, <<"c", "b">>, <<"b", "a">>}

GVConverters == SeqsUpTo({"int", "str", "float"}, MaxConverters)

GVDefaults == {None, Some(PyInt(0))}

InitGetValue ==
    /\ max_connections = auto /\ overwrite = TRUE
    /\ caller_headers = <<>> /\ headers = init_headers(caller_headers)
    /\ fs = << >> /\ fs0 = fs
    /\ NoCall /\ NoPlan
    /\ FreshYouTube /\ NoExtract /\ NoInvocations
    /\ _raw_youtube_streams = <<>> /\ system_language_prefix = <<"e", "n">>
    /\ preferred = <<>> /\ yt_pc = "idle" /\ yt_raised = "none"
    /\ gv_in \in [data : GVData, key : GVKeys, fallback_keys : GVFallbackKeys,
                  convert_to : GVConverters, default_to : GVDefaults]
    /\ gv_out = <<>>

\* one call get_value(data, key, fallback_keys, convert_to, default_to)
GetValueCall ==
    /\ gv_out = <<>>
    /\ gv_out' = << get_value(gv_in.data, gv_in.key, gv_in.fallback_keys, gv_in.convert_to,
                              gv_in.default_to) >>
    /\ UNCHANGED <<config_vars, call_args, plan_vars, yt_vars, extract_vars, invocations,
                   gv_in, output_file_path, fs, pc, calls, output_path, total_size,
                   head_result, ranges, connections, chunks, written, raised, fs0>>

NextGetValue == GetValueCall

SpecGetValue == InitGetValue /\ [][NextGetValue]_vars

\* the reference resolver: the value of the first of primary key and fallback
\* keys, in order, that holds one
ref_found(data, keys) ==
    LET hits == {i \in 1..Len(keys) : dict_get(data, keys[i]) # None}
    IN IF hits = {} THEN None
       ELSE dict_get(data, keys[CHOOSE i \in hits : \A j \in hits : i <= j])

\* the reference resolver: the first converter in list order that succeeds
ref_convert(value, converters, default_to) ==
    LET wins == {i \in 1..Len(converters) : apply_converter(converters[i], value).ok}
    IN IF converters = <<>> THEN Some(value)
       ELSE IF wins = {} THEN default_to
       ELSE Some(apply_converter(converters[CHOOSE i \in wins : \A j \in wins : i <= j],
                                 value).v)

ref_resolve(in) ==
    LET found == ref_found(in.data, <<in.key>> \o in.fallback_keys)
    IN IF found = None THEN in.default_to
       ELSE ref_convert(found[1], in.convert_to, in.default_to)

\* the call has returned (a value or the default), no exception left it
GetValueReturned == gv_out # <<>> /\ (gv_out[1] = None \/ ~IsRaised(gv_out[1][1]))

\* C24: get_value equals the reference resolver: the value of the primary
\* key or else of the first fallback key that holds one, converted by the
\* first converter in list order that succeeds (also when a converter occurs
\* more than once in the list), the default only when no value was found or
\* every converter failed.
C24_EqualsReference == GetValueReturned => gv_out[1] = ref_resolve(gv_in)

\* C25: get_value never raises: whatever kind of error a converter raises,
\* the call returns a value.
C25_NeverRaises == gv_out # <<>> => GetValueReturned

\* the GET for range i has been issued
Issued(i) == i \in DOMAIN chunks /\ chunks[i].st # "queued"

\* C27: in a download of a resource of size S > 0 every chunk GET carries
\* Range: bytes=start-end for its planned range, also when the first range is
\* one byte long; the header is left out only for the single request of a
\* plan for S = 0.
C27_RangeOnEveryGet ==
    \A i \in DOMAIN chunks :
        Issued(i) =>
            IF total_size > 0
            THEN chunks[i].range_hdr = <<ranges[i][1], ranges[i][2]>>
            ELSE chunks[i].range_hdr = <<>> /\ Len(chunks) = 1

\* the output file of the current call has been opened for writing
FileOpened == pc \in {"Assembling", "Complete"}

\* C28: in every download call the HEAD response is received before the plan
\* is computed and before any GET is issued; every chunk GET has finished
\* before the output file is opened for writing; and the bodies are written in
\* ascending range index, whatever the order of completion.
C28_StepOrder ==
    /\ (ranges # <<>> \/ chunks # <<>>) => head_result \in {"ok", "status"}
    /\ (\E i \in DOMAIN chunks : Issued(i)) => ranges # <<>>
    /\ FileOpened => \A i \in DOMAIN chunks : chunks[i].st = "done"
    /\ FileOpened => /\ written \in 0..Len(chunks)
                     /\ fs[output_path.name] = JoinBodies(chunks, written)

C28_Witness ==
    /\ pc = "Complete"
    /\ Len(chunks) >= 2
    /\ written = Len(chunks)
    /\ chunks[1].body # chunks[2].body
    /\ fs[output_path.name] = chunks[1].body \o chunks[2].body

\* the current call has ended after its plan was made
EndedAfterPlan == pc \in {"Complete", "Failed"} /\ total_size > 0 /\ ranges # <<>>

\* no chunk request is issued again or changes once it has finished
NoSecondGet ==
    \A i \in DOMAIN chunks :
        (calls' = calls /\ Issued(i)) =>
            /\ i \in DOMAIN chunks'
            /\ chunks'[i].st # "queued"
            /\ chunks'[i].range_hdr = chunks[i].range_hdr
            /\ i \in Finished => chunks'[i] = chunks[i]

\* C29: in every download call with total size > 0 that gets past the HEAD
\* probe exactly one GET is issued per planned range, whether the call ends
\* in Complete or Failed: a failed chunk is never requested again, and when a
\* chunk fails the other submitted requests run to completion before the
\* DownloadError reaches the caller.
C29_OneGetPerRange ==
    /\ [](EndedAfterPlan => /\ DOMAIN chunks = DOMAIN ranges
                            /\ Finished = DOMAIN chunks)
    /\ []((pc = "Failed" /\ FailedChunks # {}) => raised = "DownloadError")
    /\ [][NoSecondGet]_vars

C29_Witness ==
    /\ pc = "Failed" /\ raised = "DownloadError"
    /\ total_size > 0
    /\ Len(chunks) >= 3
    /\ chunks[1].st = "failed"
    /\ \A i \in 2..Len(chunks) : chunks[i].st = "done"

\* ------------------------------------------------------- YouTube.extract
\* the urls given to extract, and what YouTubeExtractor.extract_video_id
\* (_video_id_regex.search) finds in each
WatchUrl == "https://youtu.be/dQw4w9WgXcQ"
OtherUrl == "https://example.com/"
ExtractUrls == {None, Some(""), Some(WatchUrl), Some(OtherUrl)}

extract_video_id(u) == IF u = WatchUrl THEN Some("dQw4w9WgXcQ") ELSE None

\* what the key "formats" / "subtitles" of a descriptor can be: <<>> for a
\* missing key, else <<value>> (the value may be None)
FormatsFields == << <<>>, <<None>>, <<Some(PyList(<<>>))>>,
                    <<Some(PyList(<<V137, A251_en_default>>))>>,
                    <<Some(PyStr(S_x))>>, <<Some(PyInt(7))>> >>

SubtitlesFields == << <<>>, <<Some(PyDictValue(<< S_en >>))>>, <<Some(PyStr(S_x))>>,
                      <<Some(PyInt(7))>> >>

Descriptor(formats, subtitles) ==
    [k \in (IF formats = <<>> THEN {} ELSE {"formats"})
           \cup (IF subtitles = <<>> THEN {} ELSE {"subtitles"})
        |-> IF k = "formats" THEN formats[1] ELSE subtitles[1]]

\* what ydl.extract_info does when called: raises, or returns a descriptor
ProviderOutcomes ==
    << [raises |-> TRUE, data |-> << >>],
       [raises |-> FALSE, data |-> Descriptor(FormatsFields[1], SubtitlesFields[1])],
       [raises |-> FALSE, data |-> Descriptor(FormatsFields[4], SubtitlesFields[2])] >>

InitExtract ==
    /\ max_connections = auto /\ overwrite = TRUE
    /\ caller_headers = <<>> /\ headers = init_headers(caller_headers)
    /\ fs = << >> /\ fs0 = fs
    /\ NoCall /\ NoPlan
    /\ FreshYouTube /\ NoGetValue /\ NoInvocations
    /\ _raw_youtube_streams = <<>> /\ system_language_prefix = <<"e", "n">>
    /\ preferred = <<>> /\ yt_raised = "none"
    /\ extract_url \in ExtractUrls
    /\ \/ ytdlp_data = None
       \/ \E i \in DOMAIN FormatsFields, j \in DOMAIN SubtitlesFields :
            ytdlp_data = Some(Descriptor(FormatsFields[i], SubtitlesFields[j]))
    /\ _source_url = <<>> /\ _raw_youtube_data = << >> /\ _raw_youtube_subtitles = << >>
    /\ provider_called = FALSE
    /\ yt_pc = "ready_extract"

\* lines 192-196: the stream list and the subtitles of the descriptor
extract_fields(data) ==
    LET streams == get_value(data, "formats", <<>>, <<"list">>, None)
        subtitles == get_value(data, "subtitles", <<>>, <<"dict">>, Some(PyDictValue(<<>>)))
    IN /\ _raw_youtube_data' = data
       /\ _raw_youtube_streams' = IF streams = None THEN <<>> ELSE streams[1].s
       /\ _raw_youtube_subtitles' = subtitles[1].s
       /\ yt_raised' = IF streams = None THEN "InvalidDataError" ELSE "none"

extract_raises(kind) ==
    /\ yt_raised' = kind
    /\ UNCHANGED <<_raw_youtube_data, _raw_youtube_streams, _raw_youtube_subtitles>>

\* YouTube.extract(url, ytdlp_data); `provider` is what extract_info would do
extract(provider) ==
    /\ yt_pc = "ready_extract"
    /\ yt_pc' = "extracted"
    /\ _source_url' = extract_url
    /\ IF ytdlp_data # None /\ DOMAIN ytdlp_data[1] # {}
       THEN provider_called' = FALSE /\ extract_fields(ytdlp_data[1])
       ELSE IF extract_url = None \/ extract_url = Some("")
       THEN provider_called' = FALSE /\ extract_raises("ValueError")
       ELSE IF extract_video_id(extract_url[1]) = None
       THEN provider_called' = FALSE /\ extract_raises("ValueError")
       ELSE /\ provider_called' = TRUE
            /\ IF provider.raises THEN extract_raises("ScrapingError")
               ELSE extract_fields(provider.data)
    /\ UNCHANGED <<config_vars, call_args, plan_vars, gv_vars, invocations, video_vars,
                   audio_vars, system_language_prefix, preferred, extract_url, ytdlp_data,
                   output_file_path, fs, pc, calls, output_path, total_size,
                   head_result, ranges, connections, chunks, written, raised, fs0>>

NextExtract == \E i \in DOMAIN ProviderOutcomes : extract(ProviderOutcomes[i])

SpecExtract == InitExtract /\ [][NextExtract]_vars

\* the descriptor holds a stream list: "formats" is there and list() takes it
HasStreamList(d) ==
    /\ "formats" \in DOMAIN d
    /\ d["formats"] # None
    /\ py_list(d["formats"][1]).ok

\* C26: extract raises ValueError exactly when neither a url nor a descriptor
\* is given, raises InvalidDataError exactly when the descriptor has no usable
\* stream list, uses the descriptor without calling the extraction provider
\* when both are given, and otherwise does not raise for a pre-fetched
\* descriptor, whatever other fields are missing.
C26_ExtractErrors ==
    yt_pc = "extracted" =>
        /\ yt_raised = "ValueError" <=> (extract_url = None /\ ytdlp_data = None)
        /\ ytdlp_data # None =>
            /\ yt_raised = "InvalidDataError" <=> ~HasStreamList(ytdlp_data[1])
            /\ ~provider_called
            /\ HasStreamList(ytdlp_data[1]) => yt_raised = "none"

\* ------------------------------------- download() calls that run together
\* Callers 1..MaxInvocations call download() with the same output_path while
\* the others are under way; each call goes through the steps of download():
\* resolve the path (lines 222-237), fetch (247-264), write (266-268).
MaxInvocations == 2

Callers == 1..MaxInvocations

\* the bytes of the resource that caller p downloads
InvocationBody(p) == << <<p, p>> >>

InitRace ==
    /\ max_connections = auto /\ overwrite \in BOOLEAN
    /\ caller_headers = <<>> /\ headers = init_headers(caller_headers)
    /\ fs \in InitialDirs /\ fs0 = fs
    /\ pc = "Pending" /\ calls = 0
    /\ output_file_path = {}
    /\ url_size = 0 /\ total_size = 0
    /\ arg_path \in RequestedPaths
    /\ parent_exists = TRUE
    /\ output_path = arg_path
    /\ head_result = "none" /\ ranges = <<>> /\ connections = 0
    /\ chunks = <<>> /\ written = 0 /\ raised = "none"
    /\ NoPlan
    /\ FreshYouTube /\ NoExtract /\ NoGetValue
    /\ _raw_youtube_streams = <<>> /\ system_language_prefix = <<"e", "n">>
    /\ preferred = <<>> /\ yt_pc = "idle" /\ yt_raised = "none"
    /\ invocations = [p \in Callers |-> [pc |-> "Pending", output_path |-> <<>>,
                                         body |-> <<>>]]

\* lines 222-237 in the call of caller p: the HEAD probe returns and the
\* output path is resolved against the directory as it is now
ResolvePath(p) ==
    /\ invocations[p].pc = "Pending"
    /\ LET resolved == resolve_path(fs, Target, overwrite)
       IN /\ invocations' = [invocations EXCEPT ![p].pc = "Fetching",
                                                ![p].output_path = resolved]
          /\ output_file_path' = {resolved}
    /\ UNCHANGED <<config_vars, call_args, plan_vars, yt_vars, extract_vars, gv_vars,
                   fs, pc, calls, output_path, total_size, head_result, ranges,
                   connections, chunks, written, raised, fs0>>

\* lines 247-264 in the call of caller p: every chunk has been fetched
FetchAll(p) ==
    /\ invocations[p].pc = "Fetching"
    /\ invocations' = [invocations EXCEPT ![p].pc = "Assembling",
                                          ![p].body = InvocationBody(p)]
    /\ UNCHANGED <<config_vars, call_args, plan_vars, yt_vars, extract_vars, gv_vars,
                   output_file_path, fs, pc, calls, output_path, total_size, head_result,
                   ranges, connections, chunks, written, raised, fs0>>

\* lines 266-268 in the call of caller p: open('wb'), write, close
WriteOutput(p) ==
    /\ invocations[p].pc = "Assembling"
    /\ fs' = WriteFile(fs, invocations[p].output_path, invocations[p].body)
    /\ invocations' = [invocations EXCEPT ![p].pc = "Complete"]
    /\ UNCHANGED <<config_vars, call_args, plan_vars, yt_vars, extract_vars, gv_vars,
                   output_file_path, pc, calls, output_path, total_size, head_result,
                   ranges, connections, chunks, written, raised, fs0>>

NextRace ==
    \/ \E p \in Callers : ResolvePath(p)
    \/ \E p \in Callers : FetchAll(p)
    \/ \E p \in Callers : WriteOutput(p)

SpecRace == InitRace /\ [][NextRace]_vars

\* caller p writes its output in this step
Writes(p) == invocations[p].pc = "Assembling" /\ invocations'[p].pc = "Complete"

\* C30: with overwrite disabled a download never writes to a path at which a
\* file exists at the moment of writing, also when calls with the same
\* requested output path run concurrently: the calls end with distinct files
\* and none replaces the output of another.
C30_NoClobber ==
    /\ [][\A p \in Callers :
            (~overwrite /\ Writes(p)) => invocations[p].output_path \notin DOMAIN fs]_vars
    /\ [](~overwrite =>
            \A p, q \in Callers :
                (p # q /\ invocations[p].pc = "Complete" /\ invocations[q].pc = "Complete")
                    => /\ invocations[p].output_path # invocations[q].output_path
                       /\ fs[invocations[p].output_path] = InvocationBody(p))

====
